---- MODULE Spec2Model ----
(***************************************************************************)
(* A model of rainybook's order book (src/src/orderbook/book.rs).          *)
(*                                                                         *)
(* The book is two price-ordered maps of price levels (bids, asks) and an  *)
(* index order_id -> price.  Each operation of OrderBook is an operator    *)
(* over a book record that yields the book after the call, the value the   *)
(* call returns and the number of warn! records it emits; one action per   *)
(* public mutating method applies it to the state.  The effect of a call   *)
(* is stated over a reachable book and the result of the operator on it.   *)
(***************************************************************************)
EXTENDS Integers, FiniteSets, Sequences, TLC

\* Bounds of the model: order ids 1..MaxOrderId, prices 1..MaxPrice,
\* sizes 0..MaxQty.
MaxOrderId == 2
MaxPrice == 2
MaxQty == 2

\* Bounds of the raw input: action codes 0..MaxRawAction, side codes
\* 0..MaxRawSide, and files of at most MaxRows records.
MaxRawAction == 7
MaxRawSide == 3
MaxRows == 2

\* The width the model gives to u64: sums of sizes wrap at 2^QtyBits, which
\* stands for 2^64.  Every size of Quantities fits in it.
QtyBits == 4
U64_MODULUS == 2 ^ QtyBits

OrderIds == 1..MaxOrderId
Prices == 1..MaxPrice
Quantities == 0..MaxQty

\* enum Side { Bid = 1, Ask = 2 }
Sides == {"Bid", "Ask"}

VARIABLES bids, asks, order_index, snapshot, feed, direct, flat

vars == <<bids, asks, order_index, snapshot, feed, direct, flat>>

----------------------------------------------------------------------------
(* Values *)

\* struct Order { order_id, side, price, size }
Order(order_id, side, price, size) ==
    [order_id |-> order_id, side |-> side, price |-> price, size |-> size]

\* Option<T>
None == [tag |-> "None"]
Some(v) == [tag |-> "Some", val |-> v]
IsSome(o) == o.tag = "Some"

\* Result<(), OrderBookError>
Ok == [tag |-> "Ok"]
OrderNotFound(order_id) == [tag |-> "OrderNotFound", order_id |-> order_id]
FillQuantityExceedsOrderSize(requested, available) ==
    [tag |-> "FillQuantityExceedsOrderSize",
     requested |-> requested, available |-> available]

\* The unit value returned by add_order.
Unit == [tag |-> "Unit"]

\* HashMap / BTreeMap as functions over their key sets.
EmptyMap == [k \in {} |-> 0]
MapInsert(m, k, v) == [x \in (DOMAIN m) \cup {k} |-> IF x = k THEN v ELSE m[x]]
MapRemove(m, k) == [x \in (DOMAIN m) \ {k} |-> m[x]]
MapGet(m, k) == IF k \in DOMAIN m THEN Some(m[k]) ELSE None

----------------------------------------------------------------------------
(* OrderLevel *)

\* OrderLevel::new
OrderLevel_new(price) == [price |-> price, orders |-> EmptyMap]

\* Mutant of OrderLevel_add_order: the level keeps the newest order only.
OrderLevel_add_order_newest_only(level, order) ==
    [level |-> [level EXCEPT !.orders = MapInsert(EmptyMap, order.order_id, order)],
     warns |-> IF order.order_id \in DOMAIN level.orders THEN 1 ELSE 0]

\* OrderLevel::add_order: insert or overwrite; warns when the id is there.
OrderLevel_add_order(level, order) ==
    [level |-> [level EXCEPT !.orders = MapInsert(level.orders, order.order_id, order)],
     warns |-> IF order.order_id \in DOMAIN level.orders THEN 1 ELSE 0]

\* OrderLevel::remove_order: the removed order, or None with a warning.
OrderLevel_remove_order(level, order_id) ==
    IF order_id \in DOMAIN level.orders
    THEN [level |-> [level EXCEPT !.orders = MapRemove(level.orders, order_id)],
          ret |-> Some(level.orders[order_id]),
          warns |-> 0]
    ELSE [level |-> level, ret |-> None, warns |-> 1]

\* Mutant of OrderLevel_modify_order: a new size of 0 removes the order.
OrderLevel_modify_order_zero_removes(level, order_id, new_size) ==
    IF order_id \in DOMAIN level.orders
    THEN [level |-> IF new_size = 0
                    THEN [level EXCEPT !.orders = MapRemove(level.orders, order_id)]
                    ELSE [level EXCEPT !.orders[order_id].size = new_size],
          ret |-> Ok]
    ELSE [level |-> level, ret |-> OrderNotFound(order_id)]

\* OrderLevel::modify_order
OrderLevel_modify_order(level, order_id, new_size) ==
    IF order_id \in DOMAIN level.orders
    THEN [level |-> [level EXCEPT !.orders[order_id].size = new_size], ret |-> Ok]
    ELSE [level |-> level, ret |-> OrderNotFound(order_id)]

\* u64 addition as a release build does it: the sum wraps.
wrapping_add(a, b) == (a + b) % U64_MODULUS

\* Iterator::sum over the sizes of the orders with these ids: u64 additions
\* from 0, in any order.
RECURSIVE sum_sizes(_, _)
sum_sizes(orders, ids) ==
    IF ids = {} THEN 0
    ELSE LET i == CHOOSE x \in ids : TRUE
         IN  wrapping_add(sum_sizes(orders, ids \ {i}), orders[i].size)

\* Iterator::sum in a build with overflow checks (a debug build): an
\* addition whose result does not fit in u64 panics, which is when the
\* sizes add up to the modulus or more.
RECURSIVE sum_panics(_, _)
sum_panics(orders, ids) ==
    IF ids = {} THEN FALSE
    ELSE LET i == CHOOSE x \in ids : TRUE
         IN  \/ sum_panics(orders, ids \ {i})
             \/ sum_sizes(orders, ids \ {i}) + orders[i].size >= U64_MODULUS

\* Mutant of total_qty: the largest size (max) instead of the sum.
total_qty_largest(level) ==
    IF DOMAIN level.orders = {} THEN 0
    ELSE LET i == CHOOSE x \in DOMAIN level.orders :
                      \A y \in DOMAIN level.orders :
                          level.orders[y].size <= level.orders[x].size
         IN  level.orders[i].size

\* OrderLevel::total_qty
total_qty(level) == sum_sizes(level.orders, DOMAIN level.orders)

\* OrderLevel::get_order
OrderLevel_get_order(level, order_id) == MapGet(level.orders, order_id)

\* OrderLevel::is_empty
OrderLevel_is_empty(level) == DOMAIN level.orders = {}

\* OrderLevel::order_count
OrderLevel_order_count(level) == Cardinality(DOMAIN level.orders)

----------------------------------------------------------------------------
(* OrderBook *)

\* OrderBook::new
OrderBook_new == [bids |-> EmptyMap, asks |-> EmptyMap, order_index |-> EmptyMap]

\* OrderBook::levels_mut: the collection of a side, and its replacement.
levels_mut(book, side) == IF side = "Bid" THEN book.bids ELSE book.asks
set_levels(book, side, levels) ==
    IF side = "Bid" THEN [book EXCEPT !.bids = levels]
                    ELSE [book EXCEPT !.asks = levels]

\* levels.get(&price).and_then(|level| level.get_order(order_id))
find_in(levels, price, order_id) ==
    IF price \in DOMAIN levels THEN OrderLevel_get_order(levels[price], order_id)
                               ELSE None

\* a.or_else(|| b)
or_else(a, b) == IF IsSome(a) THEN a ELSE b

\* OrderBook::get_order
get_order(book, order_id) ==
    IF order_id \notin DOMAIN book.order_index THEN None
    ELSE LET price == book.order_index[order_id]
         IN  or_else(find_in(book.bids, price, order_id),
                     find_in(book.asks, price, order_id))

\* Mutant of old_side_of: only the bid level is looked at.
old_side_of_bids_only(book, order_id, old_price) ==
    LET found == find_in(book.bids, old_price, order_id)
    IN  IF IsSome(found) THEN Some(found.val.side) ELSE None

\* add_order, lines 140-150: the side of the order the index points at,
\* looked up in the bid level at old_price first, then in the ask level.
old_side_of(book, order_id, old_price) ==
    LET found == or_else(find_in(book.bids, old_price, order_id),
                         find_in(book.asks, old_price, order_id))
    IN  IF IsSome(found) THEN Some(found.val.side) ELSE None

\* Mutant of store_or_drop: the level is kept even when it is empty.
store_always(levels, price, level) == MapInsert(levels, price, level)

\* if level.is_empty() { levels.remove(&price) }, after a level changed.
store_or_drop(levels, price, level) ==
    IF OrderLevel_is_empty(level) THEN MapRemove(levels, price)
                                  ELSE MapInsert(levels, price, level)

\* add_order, lines 158-164: take the order out of its old level and drop
\* the level when that empties it.
remove_from_old(book, order_id, old_side, old_price) ==
    LET old_levels == levels_mut(book, old_side)
    IN  IF old_price \in DOMAIN old_levels
        THEN LET r == OrderLevel_remove_order(old_levels[old_price], order_id)
             IN  [book |-> set_levels(book, old_side,
                                      store_or_drop(old_levels, old_price, r.level)),
                  warns |-> r.warns]
        ELSE [book |-> book, warns |-> 0]

\* Mutant of relocate: the move is made without the warn! of line 153.
relocate_silent(book, order) ==
    IF order.order_id \in DOMAIN book.order_index
    THEN LET old_price == book.order_index[order.order_id]
             old_side == old_side_of(book, order.order_id, old_price)
         IN  IF IsSome(old_side)
             THEN remove_from_old(book, order.order_id, old_side.val, old_price)
             ELSE [book |-> book, warns |-> 0]
    ELSE [book |-> book, warns |-> 0]

\* add_order, lines 138-166: an id the index knows is first removed from
\* where it rests, with a warning.
relocate(book, order) ==
    IF order.order_id \in DOMAIN book.order_index
    THEN LET old_price == book.order_index[order.order_id]
             old_side == old_side_of(book, order.order_id, old_price)
         IN  IF IsSome(old_side)
             THEN LET r == remove_from_old(book, order.order_id,
                                           old_side.val, old_price)
                  IN  [book |-> r.book, warns |-> 1 + r.warns]
             ELSE [book |-> book, warns |-> 0]
    ELSE [book |-> book, warns |-> 0]

\* Mutant of index_put: entry(order_id).or_insert(price) keeps an old entry.
index_put_first(index, order_id, price) ==
    IF order_id \in DOMAIN index THEN index ELSE MapInsert(index, order_id, price)

\* add_order, line 177: order_index.insert(order_id, price)
index_put(index, order_id, price) == MapInsert(index, order_id, price)

\* add_order, lines 168-177: levels.entry(price).or_insert_with(new)
\* .add_order(order), then order_index.insert(order_id, price).
insert_order(book, order) ==
    LET levels == levels_mut(book, order.side)
        level == IF order.price \in DOMAIN levels THEN levels[order.price]
                 ELSE OrderLevel_new(order.price)
        r == OrderLevel_add_order(level, order)
        placed == set_levels(book, order.side,
                             MapInsert(levels, order.price, r.level))
    IN  [book |-> [placed EXCEPT !.order_index =
                       index_put(book.order_index, order.order_id, order.price)],
         warns |-> r.warns]

\* OrderBook::add_order
add_order(book, order) ==
    LET moved == relocate(book, order)
        ins == insert_order(moved.book, order)
    IN  [book |-> ins.book, ret |-> Unit, warns |-> moved.warns + ins.warns]

\* Mutant of index_take: the entry is read (get) and stays in the index.
index_take_stale(index, order_id) == index

\* remove_order, line 183: order_index.remove(&order_id) takes the entry out.
index_take(index, order_id) == MapRemove(index, order_id)

\* Mutant of take_from: levels.remove(&price) takes the whole level out.
take_from_drops_level(levels, price, order_id) ==
    IF price \in DOMAIN levels
    THEN LET r == OrderLevel_remove_order(levels[price], order_id)
         IN  [levels |-> IF IsSome(r.ret) THEN MapRemove(levels, price) ELSE levels,
              ret |-> r.ret, warns |-> r.warns]
    ELSE [levels |-> levels, ret |-> None, warns |-> 0]

\* levels.get_mut(&price).and_then(|level| level.remove_order(order_id))
take_from(levels, price, order_id) ==
    IF price \in DOMAIN levels
    THEN LET r == OrderLevel_remove_order(levels[price], order_id)
         IN  [levels |-> MapInsert(levels, price, r.level),
              ret |-> r.ret, warns |-> r.warns]
    ELSE [levels |-> levels, ret |-> None, warns |-> 0]

\* Mutant of clean_up: when the level is emptied, the price is dropped from
\* the bids and from the asks.
clean_up_both_sides(book, price, removed) ==
    IF IsSome(removed)
    THEN LET levels == levels_mut(book, removed.val.side)
         IN  [book |-> IF price \in DOMAIN levels
                          /\ OrderLevel_is_empty(levels[price])
                       THEN [book EXCEPT !.bids = MapRemove(book.bids, price),
                                         !.asks = MapRemove(book.asks, price)]
                       ELSE book,
              warns |-> 0]
    ELSE [book |-> book, warns |-> 1]

\* Mutant of clean_up: the emptied level is left in its collection.
clean_up_keeps_level(book, price, removed) ==
    [book |-> book, warns |-> IF IsSome(removed) THEN 0 ELSE 1]

\* remove_order, lines 199-207: drop the level the removed order left
\* empty, on the side the removed order names; warn when nothing was removed.
clean_up(book, price, removed) ==
    IF IsSome(removed)
    THEN LET levels == levels_mut(book, removed.val.side)
         IN  [book |-> IF price \in DOMAIN levels
                          /\ OrderLevel_is_empty(levels[price])
                       THEN set_levels(book, removed.val.side,
                                       MapRemove(levels, price))
                       ELSE book,
              warns |-> 0]
    ELSE [book |-> book, warns |-> 1]

\* OrderBook::remove_order
remove_order(book, order_id) ==
    IF order_id \notin DOMAIN book.order_index
    THEN [book |-> book, ret |-> None, warns |-> 1]
    ELSE LET price == book.order_index[order_id]
             fromBids == take_from(book.bids, price, order_id)
             fromAsks == IF IsSome(fromBids.ret)
                         THEN [levels |-> book.asks, ret |-> None, warns |-> 0]
                         ELSE take_from(book.asks, price, order_id)
             removed == or_else(fromBids.ret, fromAsks.ret)
             taken == [bids |-> fromBids.levels, asks |-> fromAsks.levels,
                       order_index |-> index_take(book.order_index, order_id)]
             cleaned == clean_up(taken, price, removed)
         IN  [book |-> cleaned.book, ret |-> removed,
              warns |-> fromBids.warns + fromAsks.warns + cleaned.warns]

\* modify_order, lines 232-241: the level at price on one side holds the
\* order, and its size is replaced there.
modify_in(levels, price, order_id, new_size) ==
    LET r == OrderLevel_modify_order(levels[price], order_id, new_size)
    IN  [levels |-> MapInsert(levels, price, r.level), ret |-> r.ret]

\* Mutant of modify_order: only the bid level at the price is tried.
modify_order_bids_only(book, order_id, new_size) ==
    IF order_id \notin DOMAIN book.order_index
    THEN [book |-> book, ret |-> OrderNotFound(order_id), warns |-> 0]
    ELSE LET price == book.order_index[order_id]
         IN  IF IsSome(find_in(book.bids, price, order_id))
             THEN LET r == modify_in(book.bids, price, order_id, new_size)
                  IN  [book |-> [book EXCEPT !.bids = r.levels],
                       ret |-> r.ret, warns |-> 0]
             ELSE [book |-> book, ret |-> OrderNotFound(order_id), warns |-> 0]

\* OrderBook::modify_order
modify_order(book, order_id, new_size) ==
    IF order_id \notin DOMAIN book.order_index
    THEN [book |-> book, ret |-> OrderNotFound(order_id), warns |-> 0]
    ELSE LET price == book.order_index[order_id]
         IN  IF IsSome(find_in(book.bids, price, order_id))
             THEN LET r == modify_in(book.bids, price, order_id, new_size)
                  IN  [book |-> [book EXCEPT !.bids = r.levels],
                       ret |-> r.ret, warns |-> 0]
             ELSE IF IsSome(find_in(book.asks, price, order_id))
             THEN LET r == modify_in(book.asks, price, order_id, new_size)
                  IN  [book |-> [book EXCEPT !.asks = r.levels],
                       ret |-> r.ret, warns |-> 0]
             ELSE [book |-> book, ret |-> OrderNotFound(order_id), warns |-> 0]

\* Mutant of fill_error: the two quantities are given in the other order.
fill_error_swapped(fill_quantity, current_size) ==
    FillQuantityExceedsOrderSize(current_size, fill_quantity)

\* fill_order, lines 254-257: the error of a fill larger than the order.
fill_error(fill_quantity, current_size) ==
    FillQuantityExceedsOrderSize(fill_quantity, current_size)

\* Mutant of exceeds: a fill of the whole order is refused too.
exceeds_or_equals(current_size, fill_quantity) == current_size <= fill_quantity

\* fill_order, line 253: current_size < fill_quantity
exceeds(current_size, fill_quantity) == current_size < fill_quantity

\* Mutant of remaining: the fill quantity is taken for the new size.
remaining_is_fill(current_size, fill_quantity) == fill_quantity

\* fill_order, line 260: new_size = current_size - fill_quantity (no
\* underflow: the fill does not exceed the size).
remaining(current_size, fill_quantity) == current_size - fill_quantity

\* Mutant of fill_found: an order filled to zero stays, with size zero.
fill_found_keeps_filled(book, order_id, fill_quantity, current_size) ==
    IF exceeds(current_size, fill_quantity)
    THEN [book |-> book,
          ret |-> fill_error(fill_quantity, current_size),
          warns |-> 0]
    ELSE modify_order(book, order_id, remaining(current_size, fill_quantity))

\* fill_order, lines 253-266: the fill of an order found with current_size.
fill_found(book, order_id, fill_quantity, current_size) ==
    IF exceeds(current_size, fill_quantity)
    THEN [book |-> book,
          ret |-> fill_error(fill_quantity, current_size),
          warns |-> 0]
    ELSE LET new_size == remaining(current_size, fill_quantity)
         IN  IF new_size = 0
             THEN LET r == remove_order(book, order_id)
                  IN  [book |-> r.book, ret |-> Ok, warns |-> r.warns]
             ELSE modify_order(book, order_id, new_size)

\* Mutant of fill_order: a fill of 0 returns Ok before the order is looked up.
fill_order_zero_shortcut(book, order_id, fill_quantity) ==
    LET found == get_order(book, order_id)
    IN  IF fill_quantity = 0
        THEN [book |-> book, ret |-> Ok, warns |-> 0]
        ELSE IF ~IsSome(found)
        THEN [book |-> book, ret |-> OrderNotFound(order_id), warns |-> 0]
        ELSE fill_found(book, order_id, fill_quantity, found.val.size)

\* OrderBook::fill_order
fill_order(book, order_id, fill_quantity) ==
    LET found == get_order(book, order_id)
    IN  IF ~IsSome(found)
        THEN [book |-> book, ret |-> OrderNotFound(order_id), warns |-> 0]
        ELSE fill_found(book, order_id, fill_quantity, found.val.size)

\* BTreeMap iteration ends: the lowest and the highest key.
first_key(levels) == CHOOSE p \in DOMAIN levels : \A q \in DOMAIN levels : p <= q
last_key(levels) == CHOOSE p \in DOMAIN levels : \A q \in DOMAIN levels : q <= p

\* BTreeMap::iter(): the keys from lowest to highest.
RECURSIVE iter_keys(_)
iter_keys(levels) ==
    IF DOMAIN levels = {} THEN <<>>
    ELSE <<first_key(levels)>> \o iter_keys(MapRemove(levels, first_key(levels)))

\* Iterator::rev()
RECURSIVE rev(_)
rev(seq) == IF seq = <<>> THEN <<>> ELSE rev(Tail(seq)) \o <<Head(seq)>>

\* Iterator::take(n)
take(seq, n) == SubSeq(seq, 1, IF n < Len(seq) THEN n ELSE Len(seq))

\* .map(|(&price, level)| (price, level.total_qty()))
price_and_qty(levels, price) == <<price, total_qty(levels[price])>>

\* Mutant of best_bid: iter().next(), the lowest bid level.
best_bid_lowest(book) ==
    IF DOMAIN book.bids = {} THEN None
    ELSE Some(price_and_qty(book.bids, first_key(book.bids)))

\* OrderBook::best_bid: iter().next_back()
best_bid(book) ==
    IF DOMAIN book.bids = {} THEN None
    ELSE Some(price_and_qty(book.bids, last_key(book.bids)))

\* OrderBook::best_ask: iter().next()
best_ask(book) ==
    IF DOMAIN book.asks = {} THEN None
    ELSE Some(price_and_qty(book.asks, first_key(book.asks)))

\* Mutant of top_n_bids: the levels are not reversed.
top_n_bids_ascending(book, n) ==
    LET prices == take(iter_keys(book.bids), n)
    IN  [k \in 1..Len(prices) |-> price_and_qty(book.bids, prices[k])]

\* OrderBook::top_n_bids
top_n_bids(book, n) ==
    LET prices == take(rev(iter_keys(book.bids)), n)
    IN  [k \in 1..Len(prices) |-> price_and_qty(book.bids, prices[k])]

\* OrderBook::top_n_asks
top_n_asks(book, n) ==
    LET prices == take(iter_keys(book.asks), n)
    IN  [k \in 1..Len(prices) |-> price_and_qty(book.asks, prices[k])]

----------------------------------------------------------------------------
(* MboProcessor (src/src/orderbook/mbo.rs) *)

\* enum Action { Add = 1, Cancel = 2, Modify = 3, Fill = 4, Clear = 5, Trade = 6 }
Actions == {"Add", "Cancel", "Modify", "Fill", "Clear", "Trade"}

\* struct MarketByOrderMessage { action, side, price, order_id, size }
MarketByOrderMessage(action, side, price, order_id, size) ==
    [action |-> action, side |-> side, price |-> price, order_id |-> order_id,
     size |-> size]

\* MboProcessError::OrderBookError(e), which `?` makes of an OrderBookError.
MboOrderBookError(e) == [tag |-> "OrderBookError", error |-> e]

\* Mutant of propagate: the book's error is dropped and Ok(()) returned.
propagate_swallows(r) == [book |-> r.book, ret |-> Ok, warns |-> r.warns]

\* `result?; ... Ok(())`: the book's error is returned, wrapped.
propagate(r) ==
    [book |-> r.book,
     ret |-> IF r.ret = Ok THEN Ok ELSE MboOrderBookError(r.ret),
     warns |-> r.warns]

\* Action::Add: the message's size (u32) widens to the order's size (u64).
on_add(book, message) ==
    LET r == add_order(book, Order(message.order_id, message.side,
                                   message.price, message.size))
    IN  [book |-> r.book, ret |-> Ok, warns |-> r.warns]

\* Mutant of on_cancel: a Cancel of an id that is not in the book fails.
on_cancel_reports_absent(book, message) ==
    LET r == remove_order(book, message.order_id)
    IN  [book |-> r.book,
         ret |-> IF r.ret = None
                 THEN MboOrderBookError(OrderNotFound(message.order_id)) ELSE Ok,
         warns |-> r.warns]

\* Action::Cancel: what remove_order returns is dropped.
on_cancel(book, message) ==
    LET r == remove_order(book, message.order_id)
    IN  [book |-> r.book, ret |-> Ok, warns |-> r.warns]

\* Action::Modify
on_modify(book, message) ==
    propagate(modify_order(book, message.order_id, message.size))

\* Action::Fill
on_fill(book, message) ==
    propagate(fill_order(book, message.order_id, message.size))

\* Action::Trade: the message is ignored.
on_trade(book, message) == [book |-> book, ret |-> Ok, warns |-> 0]

\* Mutant of on_clear: the message is ignored, as a Trade is.
on_clear_ignored(book, message) == on_trade(book, message)

\* Action::Clear: self.order_book = OrderBook::new()
on_clear(book, message) == [book |-> OrderBook_new, ret |-> Ok, warns |-> 0]

\* Mutant of process_message: a Trade fills the order it names.
process_message_trade_fills(book, message) ==
    CASE message.action = "Add" -> on_add(book, message)
      [] message.action = "Cancel" -> on_cancel(book, message)
      [] message.action = "Modify" -> on_modify(book, message)
      [] message.action = "Fill" -> on_fill(book, message)
      [] message.action = "Clear" -> on_clear(book, message)
      [] message.action = "Trade" -> on_fill(book, message)

\* MboProcessor::process_message, on the processor's order_book.
process_message(book, message) ==
    CASE message.action = "Add" -> on_add(book, message)
      [] message.action = "Cancel" -> on_cancel(book, message)
      [] message.action = "Modify" -> on_modify(book, message)
      [] message.action = "Fill" -> on_fill(book, message)
      [] message.action = "Clear" -> on_clear(book, message)
      [] message.action = "Trade" -> on_trade(book, message)

----------------------------------------------------------------------------
(* Decoding of raw records (src/src/orderbook/mbo.rs, src/src/main.rs) *)

\* Result<T, E> with a value.
OkOf(v) == [tag |-> "Ok", val |-> v]
Err(e) == [tag |-> "Err", error |-> e]
IsOk(r) == r.tag = "Ok"

\* num_enum's error of a failed try_from, which keeps the number.
TryFromPrimitiveError(number) == [tag |-> "TryFromPrimitiveError", number |-> number]

\* MboProcessError::UnknownAction(i8), MboProcessError::SideConversionError(i8)
UnknownAction(number) == [tag |-> "UnknownAction", number |-> number]
SideConversionError(number) == [tag |-> "SideConversionError", number |-> number]

\* Action::try_from(i8), derived by TryFromPrimitive from the discriminants.
Action_try_from(code) ==
    CASE code = 1 -> OkOf("Add")
      [] code = 2 -> OkOf("Cancel")
      [] code = 3 -> OkOf("Modify")
      [] code = 4 -> OkOf("Fill")
      [] code = 5 -> OkOf("Clear")
      [] code = 6 -> OkOf("Trade")
      [] OTHER -> Err(TryFromPrimitiveError(code))

\* Side::try_from(i8), derived by TryFromPrimitive from the discriminants.
Side_try_from(code) ==
    CASE code = 1 -> OkOf("Bid")
      [] code = 2 -> OkOf("Ask")
      [] OTHER -> Err(TryFromPrimitiveError(code))

\* The fields of a dbn::MboMsg that the conversion reads; a row of the
\* DataFrame has the same fields, each an Option (a null is None).
MboMsg(action, side, price, order_id, size) ==
    [action |-> action, side |-> side, price |-> price, order_id |-> order_id,
     size |-> size]

\* impl TryFrom<&MboMsg> for MarketByOrderMessage
MarketByOrderMessage_try_from(msg) ==
    LET action == Action_try_from(msg.action)
        side == Side_try_from(msg.side)
    IN  IF ~IsOk(action) THEN Err(UnknownAction(action.error.number))
        ELSE IF ~IsOk(side) THEN Err(SideConversionError(side.error.number))
        ELSE OkOf(MarketByOrderMessage(action.val, side.val, msg.price,
                                       msg.order_id, msg.size))

\* records.iter().map(MarketByOrderMessage::try_from).collect::<Result<_, _>>():
\* the messages of all the records, or the error of the first that has one.
RECURSIVE collect_try_from(_)
collect_try_from(records) ==
    IF records = <<>> THEN OkOf(<<>>)
    ELSE LET first == MarketByOrderMessage_try_from(Head(records))
             rest == collect_try_from(Tail(records))
         IN  IF ~IsOk(first) THEN first
             ELSE IF ~IsOk(rest) THEN rest
             ELSE OkOf(<<first.val>> \o rest.val)

\* into_mbo_messages, the closure given to filter_map: None for a row with a
\* null, an action code or a side code that try_from refuses.
row_message(row) ==
    IF \E f \in {"action", "side", "price", "order_id", "size"} : ~IsSome(row[f])
    THEN None
    ELSE LET action == Action_try_from(row.action.val)
             side == Side_try_from(row.side.val)
         IN  IF ~IsOk(action) \/ ~IsOk(side) THEN None
             ELSE Some(MarketByOrderMessage(action.val, side.val, row.price.val,
                                            row.order_id.val, row.size.val))

\* Iterator::filter_map(..).collect(): the messages of the rows that have one.
RECURSIVE filter_map(_)
filter_map(rows) ==
    IF rows = <<>> THEN <<>>
    ELSE LET m == row_message(Head(rows))
         IN  (IF IsSome(m) THEN <<m.val>> ELSE <<>>) \o filter_map(Tail(rows))

\* into_mbo_messages, for a DataFrame that has the five columns with their
\* types.
into_mbo_messages(df) == OkOf(filter_map(df))

\* main, lines 70-76: the messages are processed in order; the first error
\* ends the run (expect), with the book as the failing message left it.
RECURSIVE process_all(_, _)
process_all(book, messages) ==
    IF messages = <<>> THEN [book |-> book, ret |-> Ok]
    ELSE LET r == process_message(book, Head(messages))
         IN  IF r.ret # Ok THEN [book |-> r.book, ret |-> r.ret]
             ELSE process_all(r.book, Tail(messages))

\* main, lines 45-76: the file is decoded as a whole, by try_from for a .dbn
\* file and by into_mbo_messages for a .parquet file, and then processed.
decode(file) ==
    IF file.format = "dbn" THEN collect_try_from(file.rows)
                           ELSE into_mbo_messages(file.rows)

run(book, file) ==
    LET messages == decode(file)
    IN  IF IsOk(messages) THEN process_all(book, messages.val)
        ELSE [book |-> book, ret |-> messages.error]

----------------------------------------------------------------------------
(* MarketByPrice (src/src/orderbook/mbp.rs) *)

\* impl From<&OrderLevel> for OrderLevelSummary
OrderLevelSummary_from(level) ==
    [price |-> level.price,
     total_quantity |-> total_qty(level),
     order_count |-> OrderLevel_order_count(level)]

\* levels.iter().map(|(&price, level)| (price, OrderLevelSummary::from(level)))
\* .collect(): a new map with the keys of the side.
summaries(levels) == [price \in DOMAIN levels |-> OrderLevelSummary_from(levels[price])]

\* Mutant of MarketByPrice_from: the asks are collected from the bids.
MarketByPrice_from_bids_twice(book) ==
    [bids |-> summaries(book.bids), asks |-> summaries(book.bids)]

\* impl From<&OrderBook> for MarketByPrice
MarketByPrice_from(book) ==
    [bids |-> summaries(book.bids), asks |-> summaries(book.asks)]

\* MarketByPrice::new(): no level on either side.
MarketByPrice_new == [bids |-> EmptyMap, asks |-> EmptyMap]

\* Mutant of held: the snapshot is a view of the book's levels.
held_as_view(mbp, book) == IF IsSome(mbp) THEN Some(MarketByPrice_from(book)) ELSE mbp

\* A MarketByPrice owns its two maps of OrderLevelSummary, which is Copy and
\* holds three integers: a snapshot a caller holds (Some), or none (None), is
\* what it was whatever the book becomes.
held(mbp, book) == mbp

----------------------------------------------------------------------------
(* The state machine: one caller applying the four mutating operations of  *)
(* an OrderBook, one call at a time, with every argument the bounds allow. *)
(* snapshot is the MarketByPrice the caller holds, None while it holds     *)
(* none, and feed the file the program is given, None when there is none.  *)
(* direct and flat are the two references a book is compared with: a book  *)
(* that is given the calls of the processor's events directly, and a map   *)
(* from order id to side, price and quantity; each is None while no        *)
(* reference is kept.                                                      *)

\* The book held in the state.
Book == [bids |-> bids, asks |-> asks, order_index |-> order_index]

\* The book and the snapshot held after a call that yields r.
ApplyTo(r) ==
    /\ bids' = r.book.bids
    /\ asks' = r.book.asks
    /\ order_index' = r.book.order_index
    /\ snapshot' = held(snapshot, r.book)
    /\ feed' = feed

\* The state after a call that yields r.
Apply(r) ==
    /\ bids' = r.book.bids
    /\ asks' = r.book.asks
    /\ order_index' = r.book.order_index
    /\ snapshot' = held(snapshot, r.book)
    /\ feed' = feed
    /\ direct' = direct
    /\ flat' = flat

\* OrderBook::new(): the book starts empty, no snapshot is taken yet, and
\* there is no file to read.
Init ==
    /\ bids = OrderBook_new.bids
    /\ asks = OrderBook_new.asks
    /\ order_index = OrderBook_new.order_index
    /\ snapshot = None
    /\ feed = None
    /\ direct = None
    /\ flat = None

AddOrder ==
    \E order_id \in OrderIds, side \in Sides, price \in Prices, size \in Quantities :
        Apply(add_order(Book, Order(order_id, side, price, size)))

RemoveOrder ==
    \E order_id \in OrderIds : Apply(remove_order(Book, order_id))

ModifyOrder ==
    \E order_id \in OrderIds, new_size \in Quantities :
        Apply(modify_order(Book, order_id, new_size))

FillOrder ==
    \E order_id \in OrderIds, fill_quantity \in Quantities :
        Apply(fill_order(Book, order_id, fill_quantity))

Next == AddOrder \/ RemoveOrder \/ ModifyOrder \/ FillOrder

Spec == Init /\ [][Next]_vars

(* One operation at a time: a book that add_order populates from empty and *)
(* that is then subjected to the one operation.  add_order alone builds    *)
(* every book, so each of these reaches the books that Spec reaches.       *)

NextAdd == AddOrder

SpecAdd == Init /\ [][NextAdd]_vars

NextRemove == AddOrder \/ RemoveOrder

SpecRemove == Init /\ [][NextRemove]_vars

NextModify == AddOrder \/ ModifyOrder

SpecModify == Init /\ [][NextModify]_vars

NextFill == AddOrder \/ FillOrder

SpecFill == Init /\ [][NextFill]_vars

(* The state machine of an MboProcessor: bids, asks and order_index are    *)
(* those of its order_book, empty after MboProcessor::new(), and each step *)
(* is one process_message.  A message carries all five fields; a step      *)
(* draws those its action reads and leaves the others at a fixed value.    *)

\* The messages with a given action.
MessagesOf(action) ==
    { MarketByOrderMessage(action, side, price, order_id, size) :
        side \in Sides, price \in Prices, order_id \in OrderIds, size \in Quantities }

ProcessAdd ==
    \E message \in MessagesOf("Add") : Apply(process_message(Book, message))

ProcessCancel ==
    \E order_id \in OrderIds :
        Apply(process_message(Book, MarketByOrderMessage("Cancel", "Bid", 1, order_id, 0)))

ProcessModify ==
    \E order_id \in OrderIds, size \in Quantities :
        Apply(process_message(Book, MarketByOrderMessage("Modify", "Bid", 1, order_id, size)))

ProcessFill ==
    \E order_id \in OrderIds, size \in Quantities :
        Apply(process_message(Book, MarketByOrderMessage("Fill", "Bid", 1, order_id, size)))

ProcessClear ==
    Apply(process_message(Book, MarketByOrderMessage("Clear", "Bid", 1, 1, 0)))

ProcessTrade ==
    \E order_id \in OrderIds :
        Apply(process_message(Book, MarketByOrderMessage("Trade", "Bid", 1, order_id, 0)))

NextMbo ==
    \/ ProcessAdd
    \/ ProcessCancel
    \/ ProcessModify
    \/ ProcessFill
    \/ ProcessClear
    \/ ProcessTrade

SpecMbo == Init /\ [][NextMbo]_vars

\* A feed of the events that call no operation that can fail.
NextUnfailing == ProcessAdd \/ ProcessCancel \/ ProcessClear \/ ProcessTrade

SpecUnfailing == Init /\ [][NextUnfailing]_vars

(* The state machine of a caller that holds a snapshot of its book: it     *)
(* takes a snapshot, applies one call or a Clear to the book, and takes a  *)
(* new snapshot before it changes the book again.                          *)

\* The snapshot held is the snapshot of the book as it is.
Fresh == snapshot = Some(MarketByPrice_from(Book))

\* let mbp = MarketByPrice::from(&book)
TakeSnapshot ==
    /\ snapshot' = Some(MarketByPrice_from(Book))
    /\ UNCHANGED <<bids, asks, order_index, feed, direct, flat>>

MutateUnderSnapshot == Fresh /\ Next

ClearUnderSnapshot == Fresh /\ ProcessClear

NextMbp == TakeSnapshot \/ MutateUnderSnapshot \/ ClearUnderSnapshot

SpecMbp == Init /\ [][NextMbp]_vars

(* The processor and a book that is called directly, side by side: each    *)
(* event is processed by the processor and its call is made on the other   *)
(* book.                                                                   *)

\* The events with a given action, with the fields the action reads.
Events(action) ==
    CASE action = "Add" -> MessagesOf("Add")
      [] action \in {"Modify", "Fill"} ->
            { MarketByOrderMessage(action, "Bid", 1, order_id, size) :
                order_id \in OrderIds, size \in Quantities }
      [] action \in {"Cancel", "Trade"} ->
            { MarketByOrderMessage(action, "Bid", 1, order_id, 0) :
                order_id \in OrderIds }
      [] action = "Clear" -> { MarketByOrderMessage("Clear", "Bid", 1, 1, 0) }

\* The book after a call that may fail: the book as it was when it fails.
or_unchanged(book, r) == IF r.ret = Ok THEN r.book ELSE book

\* The call of an event, made on a book directly.
Direct(book, message) ==
    CASE message.action = "Add" ->
            add_order(book, Order(message.order_id, message.side, message.price,
                                  message.size)).book
      [] message.action = "Cancel" -> remove_order(book, message.order_id).book
      [] message.action = "Modify" ->
            or_unchanged(book, modify_order(book, message.order_id, message.size))
      [] message.action = "Fill" ->
            or_unchanged(book, fill_order(book, message.order_id, message.size))
      [] message.action = "Clear" -> OrderBook_new
      [] message.action = "Trade" -> book

InitDirect ==
    /\ bids = OrderBook_new.bids
    /\ asks = OrderBook_new.asks
    /\ order_index = OrderBook_new.order_index
    /\ snapshot = None
    /\ feed = None
    /\ direct = Some(OrderBook_new)
    /\ flat = None

\* One event, processed and called.
Mirror(action) ==
    \E message \in Events(action) :
        /\ ApplyTo(process_message(Book, message))
        /\ direct' = Some(Direct(direct.val, message))
        /\ flat' = flat

NextDirect ==
    \/ Mirror("Add")
    \/ Mirror("Cancel")
    \/ Mirror("Modify")
    \/ Mirror("Fill")
    \/ Mirror("Clear")
    \/ Mirror("Trade")

SpecDirect == InitDirect /\ [][NextDirect]_vars

(* The program run on a file (main): the file is one of the files of at    *)
(* most MaxRows records, with every action code and side code of the       *)
(* bounds and, in a .parquet file, nulls in the two code columns; price,   *)
(* order id and size are 1 in every record.  The run decodes the file,     *)
(* processes its messages on a new processor, and ends.                    *)

RawActionCodes == 0..MaxRawAction
RawSideCodes == 0..MaxRawSide

\* The records of a .dbn file and the rows of a .parquet file.
DbnRecords == { MboMsg(a, s, 1, 1, 1) : a \in RawActionCodes, s \in RawSideCodes }

ParquetRows ==
    { MboMsg(a, s, Some(1), Some(1), Some(1)) :
        a \in {None} \cup { Some(c) : c \in RawActionCodes },
        s \in {None} \cup { Some(c) : c \in RawSideCodes } }

SeqsUpTo(S, n) == UNION { [1..k -> S] : k \in 0..n }

DbnFiles ==
    { [format |-> "dbn", rows |-> rows] : rows \in SeqsUpTo(DbnRecords, MaxRows) }

ParquetFiles ==
    { [format |-> "parquet", rows |-> rows] : rows \in SeqsUpTo(ParquetRows, MaxRows) }

InitRun ==
    /\ bids = OrderBook_new.bids
    /\ asks = OrderBook_new.asks
    /\ order_index = OrderBook_new.order_index
    /\ snapshot = None
    /\ direct = None
    /\ flat = None
    /\ \/ feed \in { Some(file) : file \in DbnFiles }
       \/ feed \in { Some(file) : file \in ParquetFiles }

\* One run of main on the file.
Run(format) ==
    /\ IsSome(feed)
    /\ feed.val.format = format
    /\ LET r == run(Book, feed.val)
       IN  /\ bids' = r.book.bids
           /\ asks' = r.book.asks
           /\ order_index' = r.book.order_index
    /\ feed' = None
    /\ UNCHANGED <<snapshot, direct, flat>>

RunDbn == Run("dbn")

RunParquet == Run("parquet")

NextRun == RunDbn \/ RunParquet

SpecRun == InitRun /\ [][NextRun]_vars

----------------------------------------------------------------------------
(* Vocabulary of the properties *)

\* Every call of a mutating operation the bounds allow.
Calls ==
    [op : {"add_order"}, order_id : OrderIds, side : Sides, price : Prices,
     size : Quantities]
    \cup [op : {"remove_order"}, order_id : OrderIds]
    \cup [op : {"modify_order", "fill_order"}, order_id : OrderIds,
          size : Quantities]

\* What call c does to a book.
Do(book, c) ==
    CASE c.op = "add_order" ->
            add_order(book, Order(c.order_id, c.side, c.price, c.size))
      [] c.op = "remove_order" -> remove_order(book, c.order_id)
      [] c.op = "modify_order" -> modify_order(book, c.order_id, c.size)
      [] c.op = "fill_order" -> fill_order(book, c.order_id, c.size)

(* A book and a flat map from order id to side, price and quantity, side   *)
(* by side: each call is made on the book and on the map.                  *)

\* What call c does to the flat map: add_order inserts or replaces the
\* entry of the id, remove_order deletes it, modify_order sets its quantity,
\* fill_order takes the fill from its quantity and deletes it at zero; a
\* modify or fill that fails changes nothing.
FlatDo(m, c) ==
    CASE c.op = "add_order" ->
            MapInsert(m, c.order_id,
                      [side |-> c.side, price |-> c.price, quantity |-> c.size])
      [] c.op = "remove_order" -> MapRemove(m, c.order_id)
      [] c.op = "modify_order" ->
            IF c.order_id \in DOMAIN m
            THEN [m EXCEPT ![c.order_id].quantity = c.size]
            ELSE m
      [] c.op = "fill_order" ->
            IF c.order_id \notin DOMAIN m THEN m
            ELSE IF c.size > m[c.order_id].quantity THEN m
            ELSE IF c.size = m[c.order_id].quantity THEN MapRemove(m, c.order_id)
            ELSE [m EXCEPT ![c.order_id].quantity = @ - c.size]

InitFlat ==
    /\ bids = OrderBook_new.bids
    /\ asks = OrderBook_new.asks
    /\ order_index = OrderBook_new.order_index
    /\ snapshot = None
    /\ feed = None
    /\ direct = None
    /\ flat = Some(EmptyMap)

\* One call of an operation, made on the book and on the map.
Both(op) ==
    \E c \in { x \in Calls : x.op = op } :
        /\ ApplyTo(Do(Book, c))
        /\ flat' = Some(FlatDo(flat.val, c))
        /\ direct' = direct

NextFlat ==
    \/ Both("add_order")
    \/ Both("remove_order")
    \/ Both("modify_order")
    \/ Both("fill_order")

SpecFlat == InitFlat /\ [][NextFlat]_vars

(* A batch of orders with pairwise distinct ids, added one by one, in any  *)
(* order, to a starting book that is empty or holds one order: direct is   *)
(* the starting book and flat the orders added so far, by id.              *)

\* The starting books: the empty book and the books with one order, of the
\* largest quantity, at any side and price.
StartBooks ==
    {OrderBook_new}
    \cup { add_order(OrderBook_new, Order(id, s, p, MaxQty)).book :
             id \in OrderIds, s \in Sides, p \in Prices }

InitBatch ==
    /\ \E start \in StartBooks :
          /\ bids = start.bids
          /\ asks = start.asks
          /\ order_index = start.order_index
          /\ direct = Some(start)
    /\ snapshot = None
    /\ feed = None
    /\ flat = Some(EmptyMap)

\* add_order of an order whose id the batch has not used.
AddDistinct ==
    \E c \in { x \in Calls : x.op = "add_order" } :
        /\ c.order_id \notin DOMAIN flat.val
        /\ ApplyTo(Do(Book, c))
        /\ flat' = Some(FlatDo(flat.val, c))
        /\ direct' = direct

NextBatch == AddDistinct

SpecBatch == InitBatch /\ [][NextBatch]_vars

(* A book that is given orders of any quantity a u64 holds, the largest    *)
(* included, and the flat map beside it.                                   *)

\* Quantities over the range of u64: a small one, half the range and the
\* largest.
WideQuantities == {1, U64_MODULUS \div 2, U64_MODULUS - 1}

InitWide ==
    /\ bids = OrderBook_new.bids
    /\ asks = OrderBook_new.asks
    /\ order_index = OrderBook_new.order_index
    /\ snapshot = None
    /\ feed = None
    /\ direct = None
    /\ flat = Some(EmptyMap)

AddWide ==
    \E order_id \in OrderIds, side \in Sides, price \in Prices,
       size \in WideQuantities :
        LET c == [op |-> "add_order", order_id |-> order_id, side |-> side,
                  price |-> price, size |-> size]
        IN  /\ ApplyTo(Do(Book, c))
            /\ flat' = Some(FlatDo(flat.val, c))
            /\ direct' = direct

NextWide == AddWide

SpecWide == InitWide /\ [][NextWide]_vars

\* The places <<side, price, order_id>> at which an order is stored.
Places(book) ==
    UNION { UNION { { <<s, p, i>> : i \in DOMAIN levels_mut(book, s)[p].orders } :
                    p \in DOMAIN levels_mut(book, s) } : s \in Sides }

\* The order stored at a place.
OrderAt(book, s, p, i) == levels_mut(book, s)[p].orders[i]

\* The levels <<side, price>> present in a book.
Levels(book) == { <<s, p>> \in Sides \X Prices : p \in DOMAIN levels_mut(book, s) }

----------------------------------------------------------------------------
(* Properties *)

\* C1: every id of the index maps to a price at which a level of one of
\* the two sides holds an order with that id, and get_order(id) returns
\* that order, with the quantity stored for it.
C1_IndexedOrdersRest ==
    \A id \in DOMAIN order_index :
          LET p == order_index[id]
          IN  /\ \E s \in Sides : <<s, p, id>> \in Places(Book)
              /\ \A s \in Sides :
                    <<s, p, id>> \in Places(Book) =>
                        /\ OrderAt(Book, s, p, id).order_id = id
                        /\ get_order(Book, id) = Some(OrderAt(Book, s, p, id))

\* C1 witness: two indexed orders rest, and one of them is still returned,
\* with what is left of it, after a fill of part of it.
C1_Witness ==
    /\ Cardinality(DOMAIN order_index) = 2
    /\ \E id \in DOMAIN order_index :
          /\ get_order(Book, id) = Some(Order(id, "Ask", order_index[id], 2))
          /\ get_order(fill_order(Book, id, 1).book, id) =
                 Some(Order(id, "Ask", order_index[id], 1))

\* C2: every order stored in a level of the bids or asks has an index entry
\* for its id whose price is the level's price, and the order's own side
\* and price are the side of the collection and the price key of the level.
C2_RestingOrdersIndexed ==
    \A pl \in Places(Book) :
        LET s == pl[1]
            p == pl[2]
            i == pl[3]
        IN  /\ i \in DOMAIN order_index
            /\ order_index[i] = p
            /\ levels_mut(Book, s)[p].price = p
            /\ OrderAt(Book, s, p, i) =
                   Order(i, s, p, OrderAt(Book, s, p, i).size)

\* C2 witness: a bid and an ask rest at different prices, and moving the
\* bid to the ask's level leaves both indexed there.
C2_Witness ==
    \E i \in DOMAIN order_index, j \in DOMAIN order_index :
        /\ <<"Bid", 1, i>> \in Places(Book)
        /\ <<"Ask", 2, j>> \in Places(Book)
        /\ LET after == add_order(Book, Order(i, "Ask", 2, 1)).book
           IN  /\ Places(after) = {<<"Ask", 2, i>>, <<"Ask", 2, j>>}
               /\ after.order_index[i] = 2

\* C3: no level present in the bids or the asks is empty.
C3_NoEmptyLevel ==
    \A l \in Levels(Book) : ~OrderLevel_is_empty(levels_mut(Book, l[1])[l[2]])

\* C3 witness: an order alone at its level is filled to zero, or re-added at
\* another price, and its level goes with it.
C3_Witness ==
    \E id \in DOMAIN order_index :
        LET o == get_order(Book, id).val
        IN  /\ o.size > 0
            /\ DOMAIN levels_mut(Book, o.side)[o.price].orders = {id}
            /\ <<o.side, o.price>> \notin Levels(fill_order(Book, id, o.size).book)
            /\ o.price = 1
            /\ <<o.side, o.price>> \notin
                   Levels(add_order(Book, Order(id, o.side, 2, 1)).book)

\* C4: each order id is stored at no more than one place of the book.
C4_OnePlacePerOrder ==
    \A pl1 \in Places(Book), pl2 \in Places(Book) :
        pl1[3] = pl2[3] => pl1 = pl2

\* C4 witness: a resting ask is re-added as a bid at another price and then
\* rests there only.
C4_Witness ==
    \E id \in DOMAIN order_index :
        /\ <<"Ask", 1, id>> \in Places(Book)
        /\ LET after == add_order(Book, Order(id, "Bid", 2, 1)).book
           IN  { pl \in Places(after) : pl[3] = id } = {<<"Bid", 2, id>>}

\* An order with this id rests in the book: get_order finds it.
InBook(book, id) == IsSome(get_order(book, id))

\* The orders stored at the places of a book, by place.
Stored(book) == [pl \in Places(book) |-> OrderAt(book, pl[1], pl[2], pl[3])]

\* C5, as claimed: add_order of an id that rests in the book never fails;
\* afterwards the order rests only at the new (side, price) with the new
\* quantity, the old level no longer exists if the order was its only
\* member, and the other orders of the old level are unchanged.
C5_ReAddAsClaimed ==
    \A id \in OrderIds, s \in Sides, p \in Prices, q \in Quantities :
        InBook(Book, id) =>
            LET old == get_order(Book, id).val
                others == (DOMAIN levels_mut(Book, old.side)[old.price].orders) \ {id}
                r == add_order(Book, Order(id, s, p, q))
            IN  /\ r.ret = Unit
                /\ { pl \in Places(r.book) : pl[3] = id } = {<<s, p, id>>}
                /\ get_order(r.book, id) = Some(Order(id, s, p, q))
                /\ others = {} => <<old.side, old.price>> \notin Levels(r.book)
                /\ \A j \in others :
                      /\ <<old.side, old.price, j>> \in Places(r.book)
                      /\ OrderAt(r.book, old.side, old.price, j) =
                             OrderAt(Book, old.side, old.price, j)

\* C5, amended: as claimed, except that the old level no longer exists when
\* the order was its only member and the new (side, price) is another one;
\* re-added at its own side and price, the order is again the only member
\* of that level.
C5_ReAddRelocates ==
    \A id \in OrderIds, s \in Sides, p \in Prices, q \in Quantities :
        InBook(Book, id) =>
            LET old == get_order(Book, id).val
                others == (DOMAIN levels_mut(Book, old.side)[old.price].orders) \ {id}
                r == add_order(Book, Order(id, s, p, q))
            IN  /\ r.ret = Unit
                /\ { pl \in Places(r.book) : pl[3] = id } = {<<s, p, id>>}
                /\ get_order(r.book, id) = Some(Order(id, s, p, q))
                /\ others = {} =>
                      IF <<s, p>> = <<old.side, old.price>>
                      THEN DOMAIN levels_mut(r.book, s)[p].orders = {id}
                      ELSE <<old.side, old.price>> \notin Levels(r.book)
                /\ \A j \in others :
                      /\ <<old.side, old.price, j>> \in Places(r.book)
                      /\ OrderAt(r.book, old.side, old.price, j) =
                             OrderAt(Book, old.side, old.price, j)

\* C5 witness: an order alone at bid 1 is re-added as an ask at 2, which
\* drops the bid level, and re-added at bid 1, which keeps it.
C5_Witness ==
    \E id \in DOMAIN order_index :
        /\ get_order(Book, id) = Some(Order(id, "Bid", 1, 1))
        /\ DOMAIN bids[1].orders = {id}
        /\ LET moved == add_order(Book, Order(id, "Ask", 2, 2)).book
           IN  /\ get_order(moved, id) = Some(Order(id, "Ask", 2, 2))
               /\ <<"Bid", 1>> \notin Levels(moved)
        /\ LET same == add_order(Book, Order(id, "Bid", 1, 2)).book
           IN  /\ get_order(same, id) = Some(Order(id, "Bid", 1, 2))
               /\ <<"Bid", 1>> \in Levels(same)

\* C6: remove_order of an id that is not in the book returns None and leaves
\* the bids, the asks and the index as they are; a second remove_order of
\* an id leaves the book as the first one left it.
C6_RemoveAbsentIsNoOp ==
    /\ \A id \in OrderIds :
          ~InBook(Book, id) =>
              /\ remove_order(Book, id).ret = None
              /\ remove_order(Book, id).book = Book
    /\ \A id \in OrderIds :
          LET once == remove_order(Book, id).book
          IN  /\ remove_order(once, id).ret = None
              /\ remove_order(once, id).book = once

\* C6 witness: one order rests, the other id does not; removing the absent
\* id changes nothing and removing the resting one twice is removing it once.
C6_Witness ==
    \E id \in OrderIds, other \in OrderIds :
        /\ InBook(Book, other)
        /\ ~InBook(Book, id)
        /\ remove_order(Book, id) = [book |-> Book, ret |-> None, warns |-> 1]
        /\ remove_order(Book, other).book = OrderBook_new
        /\ remove_order(remove_order(Book, other).book, other).book = OrderBook_new

\* C7: remove_order of an id that is in the book deletes that order from its
\* level, deletes the level exactly when that empties it, deletes the id's
\* index entry, and leaves every other order, level and index entry as is.
C7_RemoveDeletesExactly ==
    \A id \in OrderIds :
        InBook(Book, id) =>
            LET o == get_order(Book, id).val
                alone == DOMAIN levels_mut(Book, o.side)[o.price].orders = {id}
                after == remove_order(Book, id).book
            IN  /\ Places(after) = Places(Book) \ {<<o.side, o.price, id>>}
                /\ \A pl \in Places(after) : Stored(after)[pl] = Stored(Book)[pl]
                /\ Levels(after) = IF alone THEN Levels(Book) \ {<<o.side, o.price>>}
                                            ELSE Levels(Book)
                /\ \A l \in Levels(after) :
                      levels_mut(after, l[1])[l[2]].price =
                          levels_mut(Book, l[1])[l[2]].price
                /\ after.order_index = MapRemove(order_index, id)

\* C7 witness: two orders share a level and one is removed; the level stays
\* with the other order.
C7_Witness ==
    \E id \in OrderIds, other \in OrderIds :
        /\ id # other
        /\ Places(Book) = {<<"Ask", 1, id>>, <<"Ask", 1, other>>}
        /\ LET after == remove_order(Book, id).book
           IN  /\ Places(after) = {<<"Ask", 1, other>>}
               /\ DOMAIN after.order_index = {other}

\* C8: a modify_order(id, q) that succeeds changes the quantity of order id
\* to q and nothing else: the order keeps its side and price, the levels of
\* both sides and the index are the same, and so is every other order.
C8_ModifyChangesOnlyQuantity ==
    \A id \in OrderIds, q \in Quantities :
        LET r == modify_order(Book, id, q)
        IN  r.ret = Ok =>
                /\ InBook(Book, id)
                /\ get_order(r.book, id) =
                       Some([get_order(Book, id).val EXCEPT !.size = q])
                /\ Places(r.book) = Places(Book)
                /\ Levels(r.book) = Levels(Book)
                /\ r.book.order_index = order_index
                /\ \A pl \in Places(Book) :
                      pl[3] # id => Stored(r.book)[pl] = Stored(Book)[pl]

\* C8 witness: one of two orders of a level is modified from 1 to 2.
C8_Witness ==
    \E id \in OrderIds, other \in OrderIds :
        /\ id # other
        /\ Stored(Book) = (<<"Bid", 2, id>> :> Order(id, "Bid", 2, 1))
                          @@ (<<"Bid", 2, other>> :> Order(other, "Bid", 2, 1))
        /\ modify_order(Book, id, 2).ret = Ok
        /\ Stored(modify_order(Book, id, 2).book) =
               (<<"Bid", 2, id>> :> Order(id, "Bid", 2, 2))
               @@ (<<"Bid", 2, other>> :> Order(other, "Bid", 2, 1))

\* C9: modify_order of an id that is not in the book fails with
\* OrderNotFound(id) and leaves the book as it is; modify_order of an id
\* that is in the book does not fail.
C9_ModifyFailsOnlyWhenAbsent ==
    \A id \in OrderIds, q \in Quantities :
        LET r == modify_order(Book, id, q)
        IN  IF InBook(Book, id)
            THEN r.ret = Ok
            ELSE r.ret = OrderNotFound(id) /\ r.book = Book

\* C9 witness: an ask rests and is modified; the other id is absent and its
\* modify fails.
C9_Witness ==
    \E id \in OrderIds, other \in OrderIds :
        /\ get_order(Book, id) = Some(Order(id, "Ask", 2, 1))
        /\ modify_order(Book, id, 0).ret = Ok
        /\ ~InBook(Book, other)
        /\ modify_order(Book, other, 1).ret = OrderNotFound(other)

\* C10: fill_order(id, f) of a resting order of quantity Q < f fails with
\* FillQuantityExceedsOrderSize(f, Q) and leaves the book as it is, the
\* order still resting with quantity Q.
C10_OverfillFails ==
    \A id \in OrderIds, f \in Quantities :
        (InBook(Book, id) /\ f > get_order(Book, id).val.size) =>
            LET Q == get_order(Book, id).val.size
                r == fill_order(Book, id, f)
            IN  /\ r.ret = FillQuantityExceedsOrderSize(f, Q)
                /\ r.book = Book
                /\ IsSome(get_order(r.book, id))
                /\ get_order(r.book, id).val.size = Q

\* C10 witness: an order of quantity 1 is asked to fill 2.
C10_Witness ==
    \E id \in OrderIds :
        /\ InBook(Book, id)
        /\ get_order(Book, id).val.size = 1
        /\ fill_order(Book, id, 2).ret = FillQuantityExceedsOrderSize(2, 1)
        /\ fill_order(Book, id, 2).book = Book

\* C11: fill_order(id, f) of a resting order of quantity Q >= f succeeds; if
\* Q - f is zero the order is removed, its level with it when it was alone
\* there, and its index entry, so that get_order no longer finds it;
\* otherwise the order stays at its side and price with quantity Q - f; in
\* both cases every other order is unchanged.
C11_FillWithinSize ==
    \A id \in OrderIds, f \in Quantities :
        (InBook(Book, id) /\ f <= get_order(Book, id).val.size) =>
            LET o == get_order(Book, id).val
                place == <<o.side, o.price, id>>
                alone == DOMAIN levels_mut(Book, o.side)[o.price].orders = {id}
                r == fill_order(Book, id, f)
            IN  /\ r.ret = Ok
                /\ \A pl \in Places(Book) \ {place} :
                      pl \in Places(r.book) /\ Stored(r.book)[pl] = Stored(Book)[pl]
                /\ IF o.size - f = 0
                   THEN /\ ~InBook(r.book, id)
                        /\ id \notin DOMAIN r.book.order_index
                        /\ Places(r.book) = Places(Book) \ {place}
                        /\ Levels(r.book) =
                               IF alone THEN Levels(Book) \ {<<o.side, o.price>>}
                                        ELSE Levels(Book)
                   ELSE /\ get_order(r.book, id) = Some([o EXCEPT !.size = o.size - f])
                        /\ Places(r.book) = Places(Book)
                        /\ r.book.order_index = order_index

\* C11 witness: of two orders of quantity 2 at one level, one is filled by 1
\* and stays with quantity 1, and filled by 2 it leaves the level to the other.
C11_Witness ==
    \E id \in OrderIds, other \in OrderIds :
        /\ id # other
        /\ Stored(Book) = (<<"Bid", 1, id>> :> Order(id, "Bid", 1, 2))
                          @@ (<<"Bid", 1, other>> :> Order(other, "Bid", 1, 2))
        /\ fill_order(Book, id, 1).ret = Ok
        /\ get_order(fill_order(Book, id, 1).book, id) = Some(Order(id, "Bid", 1, 1))
        /\ fill_order(Book, id, 2).ret = Ok
        /\ Places(fill_order(Book, id, 2).book) = {<<"Bid", 1, other>>}

\* C12, as claimed: fill_order(id, 0) of any resting order succeeds and
\* leaves the order in the book and the bids, the asks and the index as
\* they are.
C12_ZeroFillAsClaimed ==
    \A id \in OrderIds :
        InBook(Book, id) =>
            /\ fill_order(Book, id, 0).ret = Ok
            /\ InBook(fill_order(Book, id, 0).book, id)
            /\ fill_order(Book, id, 0).book = Book

\* C12, amended: fill_order(id, 0) of a resting order succeeds; when the
\* order's quantity is above zero the book is left as it is, and when the
\* quantity is zero the order is removed as remove_order removes it.
C12_ZeroFillOfPositive ==
    \A id \in OrderIds :
        InBook(Book, id) =>
            LET r == fill_order(Book, id, 0)
            IN  /\ r.ret = Ok
                /\ IF get_order(Book, id).val.size > 0
                   THEN InBook(r.book, id) /\ r.book = Book
                   ELSE ~InBook(r.book, id) /\ r.book = remove_order(Book, id).book

\* C12 witness: an order of quantity 1 and an order of quantity 0 rest; the
\* fill of 0 leaves the first and removes the second.
C12_Witness ==
    \E id \in OrderIds, zero \in OrderIds :
        /\ InBook(Book, id) /\ get_order(Book, id).val.size = 1
        /\ InBook(Book, zero) /\ get_order(Book, zero).val.size = 0
        /\ fill_order(Book, id, 0).book = Book
        /\ ~InBook(fill_order(Book, zero, 0).book, zero)

\* C13: fill_order of an id that is not in the book fails with
\* OrderNotFound(id), whatever the fill quantity, 0 included, and leaves the
\* book as it is.
C13_FillAbsentFails ==
    \A id \in OrderIds, f \in Quantities :
        ~InBook(Book, id) =>
            /\ fill_order(Book, id, f).ret = OrderNotFound(id)
            /\ fill_order(Book, id, f).book = Book

\* C13 witness: an order rests, another id does not, and fills of 0 and of 1
\* of the absent id fail.
C13_Witness ==
    \E id \in OrderIds, other \in OrderIds :
        /\ InBook(Book, other)
        /\ ~InBook(Book, id)
        /\ fill_order(Book, id, 0) = [book |-> Book, ret |-> OrderNotFound(id), warns |-> 0]
        /\ fill_order(Book, id, 1) = [book |-> Book, ret |-> OrderNotFound(id), warns |-> 0]

\* The orders stored at the level of side s at price p (none when there is
\* no such level).
OrdersAt(book, s, p) ==
    { Stored(book)[pl] : pl \in { x \in Places(book) : x[1] = s /\ x[2] = p } }

\* The sum of the sizes of a set of orders, in the integers.
RECURSIVE SumOf(_)
SumOf(orders) ==
    IF orders = {} THEN 0
    ELSE LET o == CHOOSE x \in orders : TRUE
         IN  o.size + SumOf(orders \ {o})

\* The prices at which orders of side s are stored.
PricesOf(book, s) == { pl[2] : pl \in { x \in Places(book) : x[1] = s } }

\* C14: best_bid returns the highest price at which bids rest with the sum
\* of the quantities of the orders of that level, best_ask the lowest price
\* at which asks rest with the sum of that level; each returns None exactly
\* when no order rests on its side.
C14_BestOfBook ==
    /\ IF PricesOf(Book, "Bid") = {}
       THEN best_bid(Book) = None
       ELSE \E p \in PricesOf(Book, "Bid") :
               /\ \A q \in PricesOf(Book, "Bid") : q <= p
               /\ best_bid(Book) = Some(<<p, SumOf(OrdersAt(Book, "Bid", p))>>)
    /\ IF PricesOf(Book, "Ask") = {}
       THEN best_ask(Book) = None
       ELSE \E p \in PricesOf(Book, "Ask") :
               /\ \A q \in PricesOf(Book, "Ask") : p <= q
               /\ best_ask(Book) = Some(<<p, SumOf(OrdersAt(Book, "Ask", p))>>)

\* C14 witness: bids rest at 1 and 2 and no ask rests; the best bid is the
\* level at 2.
C14_Witness ==
    /\ PricesOf(Book, "Bid") = {1, 2}
    /\ best_bid(Book) = Some(<<2, 2>>)
    /\ best_ask(Book) = None

\* C14 witness for the asks: asks rest at 1 and 2; the best ask is the level at 1.
C14_WitnessAsk ==
    /\ PricesOf(Book, "Ask") = {1, 2}
    /\ best_ask(Book) = Some(<<1, 2>>)
    /\ best_bid(Book) = None

\* C15: the total quantity of every level is the sum of the quantities of
\* the orders it holds and its order count is the number of those orders.
C15_LevelAggregates ==
    \A l \in Levels(Book) :
        /\ total_qty(levels_mut(Book, l[1])[l[2]]) = SumOf(OrdersAt(Book, l[1], l[2]))
        /\ OrderLevel_order_count(levels_mut(Book, l[1])[l[2]]) =
               Cardinality(OrdersAt(Book, l[1], l[2]))

\* C15 witness: two orders of quantities 1 and 2 share a level whose total
\* is 3 and whose count is 2; modifying the first to 2 makes the total 4.
C15_Witness ==
    \E id \in OrderIds, other \in OrderIds :
        /\ Stored(Book) = (<<"Ask", 2, id>> :> Order(id, "Ask", 2, 1))
                          @@ (<<"Ask", 2, other>> :> Order(other, "Ask", 2, 2))
        /\ total_qty(asks[2]) = 3
        /\ OrderLevel_order_count(asks[2]) = 2
        /\ total_qty(modify_order(Book, id, 2).book.asks[2]) = 4

\* The numbers of levels asked of top_n_bids and top_n_asks: none, some,
\* all, and more than there can be.
Depths == 0..(MaxPrice + 1)

\* C16: top_n_bids(n) has min(n, number of bid levels) entries, the highest
\* bid prices in strictly descending order, and top_n_asks(n) has
\* min(n, number of ask levels) entries, the lowest ask prices in strictly
\* ascending order; each entry carries the sum of the quantities of its
\* level; a first entry is best_bid / best_ask; n = 0 or an empty side
\* yields the empty list.
C16_TopN ==
    \A n \in Depths :
        LET min(a, b) == IF a < b THEN a ELSE b
            tb == top_n_bids(Book, n)
            ta == top_n_asks(Book, n)
            pb == PricesOf(Book, "Bid")
            pa == PricesOf(Book, "Ask")
        IN  /\ Len(tb) = min(n, Cardinality(pb))
            /\ Len(ta) = min(n, Cardinality(pa))
            /\ \A k \in 1..Len(tb) :
                  /\ tb[k][1] \in pb
                  /\ tb[k][2] = SumOf(OrdersAt(Book, "Bid", tb[k][1]))
                  /\ k > 1 => tb[k][1] < tb[k - 1][1]
                  /\ \A q \in pb : q > tb[k][1] => \E m \in 1..(k - 1) : tb[m][1] = q
            /\ \A k \in 1..Len(ta) :
                  /\ ta[k][1] \in pa
                  /\ ta[k][2] = SumOf(OrdersAt(Book, "Ask", ta[k][1]))
                  /\ k > 1 => ta[k][1] > ta[k - 1][1]
                  /\ \A q \in pa : q < ta[k][1] => \E m \in 1..(k - 1) : ta[m][1] = q
            /\ Len(tb) >= 1 => Some(tb[1]) = best_bid(Book)
            /\ Len(ta) >= 1 => Some(ta[1]) = best_ask(Book)
            /\ (n = 0 \/ pb = {}) => tb = <<>>
            /\ (n = 0 \/ pa = {}) => ta = <<>>

\* C16 witness: bids of quantity 1 and 2 rest at 1 and 2 and no ask rests.
C16_Witness ==
    /\ top_n_bids(Book, 3) = << <<2, 2>>, <<1, 1>> >>
    /\ top_n_bids(Book, 1) = << <<2, 2>> >>
    /\ top_n_bids(Book, 0) = <<>>
    /\ top_n_asks(Book, 3) = <<>>

\* The other side.
Opposite(s) == IF s = "Bid" THEN "Ask" ELSE "Bid"

\* best_bid for the bids, best_ask for the asks.
BestOf(book, s) == IF s = "Bid" THEN best_bid(book) ELSE best_ask(book)

\* The side a call mutates: the side given to add_order, or the side on
\* which the order of a remove, modify or fill rests; None for a call on an
\* id that is not in the book.
SideOf(book, c) ==
    IF c.op = "add_order" THEN Some(c.side)
    ELSE IF InBook(book, c.order_id) THEN Some(get_order(book, c.order_id).val.side)
    ELSE None

\* C17, as claimed: a call that mutates an order on one side (add_order with
\* that side, or remove, modify or fill of an order resting on it) changes
\* neither the best price and quantity nor any level of the other side.
C17_SidesAsClaimed ==
    \A c \in Calls :
        IsSome(SideOf(Book, c)) =>
            LET other == Opposite(SideOf(Book, c).val)
                after == Do(Book, c).book
            IN  /\ levels_mut(after, other) = levels_mut(Book, other)
                /\ BestOf(after, other) = BestOf(Book, other)

\* C17, amended: as claimed, for every call but an add_order of an id that
\* rests on the other side; that add_order takes the order out of the other
\* side and changes nothing else there.
C17_SidesIndependent ==
    \A c \in Calls :
        IsSome(SideOf(Book, c)) =>
            LET other == Opposite(SideOf(Book, c).val)
                after == Do(Book, c).book
                crosses == /\ c.op = "add_order"
                           /\ InBook(Book, c.order_id)
                           /\ get_order(Book, c.order_id).val.side = other
            IN  IF crosses
                THEN { pl \in Places(after) : pl[1] = other } =
                         { pl \in Places(Book) : pl[1] = other /\ pl[3] # c.order_id }
                     /\ \A pl \in Places(after) :
                           pl[1] = other =>
                               OrderAt(after, pl[1], pl[2], pl[3]) =
                                   OrderAt(Book, pl[1], pl[2], pl[3])
                ELSE /\ levels_mut(after, other) = levels_mut(Book, other)
                     /\ BestOf(after, other) = BestOf(Book, other)

\* C17 witness: a bid and an ask rest at the same price; removing, modifying
\* or filling the bid, or re-adding it as a bid elsewhere, leaves the asks.
C17_Witness ==
    \E id \in OrderIds, other \in OrderIds :
        /\ Stored(Book) = (<<"Bid", 1, id>> :> Order(id, "Bid", 1, 2))
                          @@ (<<"Ask", 1, other>> :> Order(other, "Ask", 1, 1))
        /\ remove_order(Book, id).book.asks = asks
        /\ modify_order(Book, id, 1).book.asks = asks
        /\ fill_order(Book, id, 2).book.asks = asks
        /\ add_order(Book, Order(id, "Bid", 2, 1)).book.asks = asks
        /\ best_ask(remove_order(Book, id).book) = Some(<<1, 1>>)
        /\ add_order(Book, Order(other, "Bid", 1, 1)).book.asks # asks

\* C18: modify_order(id, 0) of a resting order succeeds and leaves the order
\* resting with quantity 0: it stays in the index and in its level, the
\* level stays, and the level's order count is the same.
C18_ModifyToZeroRests ==
    \A id \in OrderIds :
        InBook(Book, id) =>
            LET o == get_order(Book, id).val
                r == modify_order(Book, id, 0)
            IN  /\ r.ret = Ok
                /\ get_order(r.book, id) = Some([o EXCEPT !.size = 0])
                /\ id \in DOMAIN r.book.order_index
                /\ r.book.order_index[id] = o.price
                /\ <<o.side, o.price, id>> \in Places(r.book)
                /\ <<o.side, o.price>> \in Levels(r.book)
                /\ OrderLevel_order_count(levels_mut(r.book, o.side)[o.price]) =
                       OrderLevel_order_count(levels_mut(Book, o.side)[o.price])

\* C18 witness: an order of quantity 2, alone at its level, is modified to 0
\* and is then the one order of that level, with quantity 0.
C18_Witness ==
    \E id \in OrderIds :
        /\ Stored(Book) = (<<"Ask", 2, id>> :> Order(id, "Ask", 2, 2))
        /\ Stored(modify_order(Book, id, 0).book) =
               (<<"Ask", 2, id>> :> Order(id, "Ask", 2, 0))
        /\ OrderLevel_order_count(modify_order(Book, id, 0).book.asks[2]) = 1

\* C19: a Clear message, whatever its other fields and whatever the book
\* holds, leaves the processor with an empty book: both sides and the index
\* are empty, a Modify or a Fill of an id that rested fails with
\* OrderNotFound(id), and an Add of an id that rested places it as the one
\* order of the book, with no warning of a move.
C19_ClearEmptiesBook ==
    /\ \A clear \in MessagesOf("Clear") :
          LET r == process_message(Book, clear)
          IN  /\ r.ret = Ok
              /\ r.book = OrderBook_new
              /\ DOMAIN r.book.bids = {}
              /\ DOMAIN r.book.asks = {}
              /\ DOMAIN r.book.order_index = {}
    /\ \A id \in OrderIds :
          InBook(Book, id) =>
              LET was == get_order(Book, id).val
                  cleared == process_message(Book,
                                 MarketByOrderMessage("Clear", was.side, was.price,
                                                      id, 0)).book
              IN  \A side \in Sides, price \in Prices, size \in Quantities :
                      LET modify == process_message(cleared,
                                        MarketByOrderMessage("Modify", side, price, id, size))
                          fill == process_message(cleared,
                                      MarketByOrderMessage("Fill", side, price, id, size))
                          add == process_message(cleared,
                                     MarketByOrderMessage("Add", side, price, id, size))
                      IN  /\ modify.ret = MboOrderBookError(OrderNotFound(id))
                          /\ modify.book = cleared
                          /\ fill.ret = MboOrderBookError(OrderNotFound(id))
                          /\ fill.book = cleared
                          /\ add.ret = Ok
                          /\ add.warns = 0
                          /\ Stored(add.book) =
                                 (<<side, price, id>> :> Order(id, side, price, size))
                          /\ add.book.order_index = (id :> price)

\* C19 witness: a bid and an ask rest; after a Clear nothing rests, a Fill of
\* the bid fails, and an Add of the bid's id rests alone.
C19_Witness ==
    \E id \in OrderIds, other \in OrderIds :
        /\ Places(Book) = {<<"Bid", 1, id>>, <<"Ask", 2, other>>}
        /\ LET cleared ==
                   process_message(Book, MarketByOrderMessage("Clear", "Ask", 2, other, 1)).book
           IN  /\ Places(cleared) = {}
               /\ process_message(cleared, MarketByOrderMessage("Fill", "Bid", 1, id, 1)).ret =
                      MboOrderBookError(OrderNotFound(id))
               /\ Places(process_message(cleared,
                             MarketByOrderMessage("Add", "Ask", 2, id, 1)).book) =
                      {<<"Ask", 2, id>>}

\* C20: a Trade message returns Ok and leaves the book as it is, whatever
\* the book holds and whatever side, price, order id and size the message
\* carries.
C20_TradeChangesNothing ==
    \A trade \in MessagesOf("Trade") :
        /\ process_message(Book, trade).ret = Ok
        /\ process_message(Book, trade).book = Book

\* C20 witness: an order of quantity 2 rests and another id does not; a Trade
\* naming either leaves the book.
C20_Witness ==
    \E id \in OrderIds, other \in OrderIds :
        /\ InBook(Book, id) /\ get_order(Book, id).val.size = 2
        /\ ~InBook(Book, other)
        /\ process_message(Book, MarketByOrderMessage("Trade", "Ask", 2, id, 1)) =
               [book |-> Book, ret |-> Ok, warns |-> 0]
        /\ process_message(Book, MarketByOrderMessage("Trade", "Bid", 1, other, 2)) =
               [book |-> Book, ret |-> Ok, warns |-> 0]

\* C21: a Modify or Fill message that fails in the book makes process_message
\* return the book's own error (OrderNotFound(id) for an id that does not
\* rest, FillQuantityExceedsOrderSize(size, available) for a fill above the
\* resting quantity) inside MboProcessError::OrderBookError, with the book as
\* it was; an Add of the same order after the failure is applied and the
\* order then rests.
C21_FailurePropagates ==
    \A m \in Events("Modify") \cup Events("Fill") :
        LET r == process_message(Book, m)
            found == get_order(Book, m.order_id)
            fails == \/ ~IsSome(found)
                     \/ m.action = "Fill" /\ m.size > found.val.size
            add == MarketByOrderMessage("Add", m.side, m.price, m.order_id, m.size)
        IN  /\ fails <=> r.ret # Ok
            /\ fails =>
                  /\ r.ret = MboOrderBookError(
                                 IF IsSome(found)
                                 THEN FillQuantityExceedsOrderSize(m.size, found.val.size)
                                 ELSE OrderNotFound(m.order_id))
                  /\ r.book = Book
                  /\ get_order(process_message(r.book, add).book, m.order_id) =
                         Some(Order(m.order_id, m.side, m.price, m.size))

\* C21 witness: an order of quantity 1 rests and another id does not; a Fill
\* of 2 of the first and a Modify of the second fail with the book's errors
\* and leave the book, and a Fill of 1 of the first then removes it.
C21_Witness ==
    \E id \in OrderIds, other \in OrderIds :
        /\ get_order(Book, id) = Some(Order(id, "Bid", 2, 1))
        /\ ~InBook(Book, other)
        /\ process_message(Book, MarketByOrderMessage("Fill", "Bid", 2, id, 2)) =
               [book |-> Book,
                ret |-> MboOrderBookError(FillQuantityExceedsOrderSize(2, 1)),
                warns |-> 0]
        /\ process_message(Book, MarketByOrderMessage("Modify", "Ask", 1, other, 2)) =
               [book |-> Book, ret |-> MboOrderBookError(OrderNotFound(other)),
                warns |-> 0]
        /\ LET after == process_message(
                            process_message(Book,
                                MarketByOrderMessage("Fill", "Bid", 2, id, 2)).book,
                            MarketByOrderMessage("Fill", "Bid", 2, id, 1))
           IN  after.ret = Ok /\ ~InBook(after.book, id)

\* C22: add_order returns nothing and remove_order an Option, in every book;
\* modify_order returns Ok or OrderNotFound(id) and fill_order Ok,
\* OrderNotFound(id) or FillQuantityExceedsOrderSize(requested, available),
\* and nothing else; an Add message, and a Cancel, Clear or Trade message
\* with any order id, returns Ok in every book, an Add of a resting id and
\* a Cancel of an absent id included.
C22_OnlyModifyAndFillFail ==
    /\ \A c \in Calls :
          LET ret == Do(Book, c).ret
          IN  CASE c.op = "add_order" -> ret = Unit
                [] c.op = "remove_order" ->
                       IF InBook(Book, c.order_id)
                       THEN ret = get_order(Book, c.order_id)
                       ELSE ret = None
                [] c.op = "modify_order" ->
                       ret \in {Ok, OrderNotFound(c.order_id)}
                [] c.op = "fill_order" ->
                       ret \in {Ok, OrderNotFound(c.order_id)}
                                \cup { FillQuantityExceedsOrderSize(c.size, available) :
                                         available \in Quantities }
    /\ \A m \in MessagesOf("Add") : process_message(Book, m).ret = Ok
    /\ \A m \in Events("Cancel") \cup Events("Clear") \cup Events("Trade") :
          process_message(Book, m).ret = Ok

\* C22 witness: one id rests and another does not; an Add of the first and a
\* Cancel of the second return Ok, and add_order and remove_order return no
\* error, while a Modify of the second fails.
C22_Witness ==
    \E id \in OrderIds, other \in OrderIds :
        /\ InBook(Book, id)
        /\ ~InBook(Book, other)
        /\ process_message(Book, MarketByOrderMessage("Add", "Ask", 1, id, 1)).ret = Ok
        /\ process_message(Book, MarketByOrderMessage("Cancel", "Ask", 1, other, 1)).ret = Ok
        /\ add_order(Book, Order(id, "Ask", 1, 1)).ret = Unit
        /\ remove_order(Book, other).ret = None
        /\ process_message(Book, MarketByOrderMessage("Modify", "Ask", 1, other, 1)).ret =
               MboOrderBookError(OrderNotFound(other))

\* The side of a snapshot.
SummariesOf(mbp, s) == IF s = "Bid" THEN mbp.bids ELSE mbp.asks

\* C23: the snapshot of a book has, on each side, one summary for each price
\* at which orders rest on that side and no other, keyed by that price and
\* iterated from the lowest price to the highest; a summary holds its price,
\* the sum of the quantities of the orders resting there and their number;
\* the snapshot of a book with no order has no summary on either side.
C23_SnapshotSummarises ==
    LET mbp == MarketByPrice_from(Book)
    IN  /\ \A s \in Sides :
              LET side == SummariesOf(mbp, s)
                  keys == iter_keys(side)
              IN  /\ DOMAIN side = PricesOf(Book, s)
                  /\ Len(keys) = Cardinality(PricesOf(Book, s))
                  /\ \A i \in 1..Len(keys) : \A j \in 1..Len(keys) :
                        i < j => keys[i] < keys[j]
                  /\ keys = iter_keys(levels_mut(Book, s))
                  /\ \A p \in DOMAIN side :
                        /\ side[p].price = p
                        /\ side[p].total_quantity = SumOf(OrdersAt(Book, s, p))
                        /\ side[p].order_count = Cardinality(OrdersAt(Book, s, p))
        /\ Places(Book) = {} => mbp = MarketByPrice_new

\* C23 witness: two bids of quantities 2 and 1 share the price 1 and no ask
\* rests; the snapshot has the one bid summary (1, 3, 2) and no ask summary.
C23_Witness ==
    /\ Stored(Book) = (<<"Bid", 1, 1>> :> Order(1, "Bid", 1, 2))
                      @@ (<<"Bid", 1, 2>> :> Order(2, "Bid", 1, 1))
    /\ MarketByPrice_from(Book) =
           [bids |-> (1 :> [price |-> 1, total_quantity |-> 3, order_count |-> 2]),
            asks |-> EmptyMap]

C25_AnomaliesAreLogged ==
    \A id \in OrderIds :
        IF InBook(Book, id)
        THEN \A s \in Sides, p \in Prices, q \in Quantities :
                 add_order(Book, Order(id, s, p, q)).warns >= 1
        ELSE remove_order(Book, id).warns >= 1

\* C25 witness: one id rests and another does not; adding the first again,
\* as it is, and removing the second write one warning each, and the book
\* holds the same orders after both.
C25_Witness ==
    \E id \in OrderIds, other \in OrderIds :
        /\ InBook(Book, id)
        /\ ~InBook(Book, other)
        /\ add_order(Book, get_order(Book, id).val) =
               [book |-> Book, ret |-> Unit, warns |-> 1]
        /\ remove_order(Book, other) = [book |-> Book, ret |-> None, warns |-> 1]

\* The raw action code or side code of a record, absent for a null.
CodeOf(format, field) == IF format = "dbn" THEN Some(field) ELSE field

\* A record has an action code that is none of the six, or a side code that
\* is neither Bid nor Ask.
Unrecognised(format, row) ==
    \/ /\ IsSome(CodeOf(format, row.action))
       /\ CodeOf(format, row.action).val \notin 1..6
    \/ /\ IsSome(CodeOf(format, row.side))
       /\ CodeOf(format, row.side).val \notin 1..2

\* C26: a file with a record whose action code is none of the six, or whose
\* side code is neither Bid nor Ask, is refused with an error by its
\* decoding, try_from for a .dbn file and into_mbo_messages for a .parquet
\* file, and no message reaches the processor: the book of the run is empty.
C26_UnrecognisedIsRejected ==
    IsSome(feed) =>
        ((\E i \in 1..Len(feed.val.rows) :
              Unrecognised(feed.val.format, feed.val.rows[i]))
         => /\ ~IsOk(decode(feed.val))
            /\ decode(feed.val).error.tag \in {"UnknownAction", "SideConversionError"}
            /\ run(Book, feed.val).book = OrderBook_new)

\* A price p of side s reaches the best price b of the other side: a bid at
\* or above the best ask, an ask at or below the best bid.
Crosses(s, p, b) == IF s = "Bid" THEN p >= b ELSE p <= b

\* The orders stored in a book at the places other than those of the set.
StoredBut(book, places) == [pl \in Places(book) \ places |-> Stored(book)[pl]]

\* C27: add_order of an order whose price reaches the best price of the
\* other side succeeds, the order rests, and every other order of the other
\* side rests as before, so that the book is crossed or locked; and when
\* the bids and the asks both have a level at a price, get_order of an id
\* resting there returns the order of that id on its own side, and
\* remove_order, modify_order and fill_order of it remove or resize that one
\* order and leave the other side's level at the price, and every other
\* order, as they were.
C27_CrossedAndLocked ==
    /\ \A s \in Sides :
          LET best == BestOf(Book, Opposite(s))
              across == { pl \in Places(Book) : pl[1] = Opposite(s) }
          IN  IsSome(best) =>
                  \A id \in OrderIds, p \in { x \in Prices : Crosses(s, x, best.val[1]) } :
                      LET others == { pl \in across : pl[3] # id }
                      IN  \A q \in Quantities :
                              LET r == add_order(Book, Order(id, s, p, q))
                              IN  /\ r.ret = Unit
                                  /\ get_order(r.book, id) = Some(Order(id, s, p, q))
                                  /\ \A pl \in others :
                                        /\ pl \in Places(r.book)
                                        /\ OrderAt(r.book, pl[1], pl[2], pl[3]) =
                                               OrderAt(Book, pl[1], pl[2], pl[3])
                                  /\ (\E pl \in others : Crosses(s, p, pl[2])) =>
                                        best_bid(r.book).val[1] >=
                                            best_ask(r.book).val[1]
    /\ \A pl \in Places(Book) :
          LET s == pl[1]
              p == pl[2]
              id == pl[3]
              there == levels_mut(Book, Opposite(s))
              mine == OrderAt(Book, s, p, id)
              rest == StoredBut(Book, {pl})
              kept(book) == /\ p \in DOMAIN levels_mut(book, Opposite(s))
                            /\ levels_mut(book, Opposite(s))[p] = there[p]
                            /\ StoredBut(book, {pl}) = rest
          IN  p \in DOMAIN there =>
                  /\ get_order(Book, id) = Some(mine)
                  /\ mine.side = s
                  /\ LET r == remove_order(Book, id)
                     IN  /\ r.ret = Some(mine)
                         /\ pl \notin Places(r.book)
                         /\ kept(r.book)
                  /\ \A q \in Quantities :
                        /\ LET r == modify_order(Book, id, q)
                           IN  /\ r.ret = Ok
                               /\ OrderAt(r.book, s, p, id) = Order(id, s, p, q)
                               /\ kept(r.book)
                        /\ LET r == fill_order(Book, id, q)
                           IN  /\ r.ret = Ok <=> q <= mine.size
                               /\ kept(r.book)
                               /\ IF q < mine.size
                                  THEN OrderAt(r.book, s, p, id) =
                                           Order(id, s, p, mine.size - q)
                                  ELSE IF q = mine.size
                                  THEN pl \notin Places(r.book)
                                  ELSE r.book = Book

\* C27 witness: a bid and an ask rest at the same price, each alone at its
\* level; a further ask below that price is accepted and crosses the book,
\* and removing the bid leaves the ask level at the price in place.
C27_Witness ==
    \E i \in DOMAIN order_index, j \in DOMAIN order_index :
        /\ Places(Book) = {<<"Bid", 2, i>>, <<"Ask", 2, j>>}
        /\ LET crossed == add_order(Book, Order(i, "Bid", 2, 1)).book
               under == add_order(Book, Order(3 - i, "Ask", 1, 1))
           IN  /\ best_bid(crossed).val[1] = best_ask(crossed).val[1]
               /\ under.ret = Unit
               /\ best_bid(remove_order(Book, i).book) = None
               /\ best_ask(remove_order(Book, i).book) = best_ask(Book)

\* C28: after any sequence of events, the processor's book is the book that
\* was given, in the same order, add_order for each Add, remove_order for
\* each Cancel, modify_order for each Modify and fill_order for each Fill,
\* that was emptied at each Clear and left alone at each Trade and at each
\* Modify or Fill that failed.
C28_EventsInOrder == IsSome(direct) => Book = direct.val

\* C28 witness: after some events one order rests in both books, with part
\* of its quantity, and the other id is free; a Fill of the free id fails
\* and a Trade of the resting one passes, and both leave the book as it is.
C28_Witness ==
    /\ IsSome(direct)
    /\ Book = direct.val
    /\ \E i \in OrderIds, j \in OrderIds :
          /\ DOMAIN order_index = {i}
          /\ j # i
          /\ get_order(Book, i) = Some(Order(i, "Ask", 2, 1))
          /\ process_message(Book, MarketByOrderMessage("Fill", "Bid", 1, j, 1)).ret
                 = MboOrderBookError(OrderNotFound(j))
          /\ Direct(Book, MarketByOrderMessage("Fill", "Bid", 1, j, 1)) = Book
          /\ Direct(Book, MarketByOrderMessage("Trade", "Bid", 1, i, 1)) = Book

\* The fills a sequence of fills is made of: each greater than zero.
Fills == 1..MaxQty

\* What C29 says of the fills that follow, for an order of which left is
\* left (0 when it has been removed): a fill of no more than what is left
\* succeeds and leaves left minus the fill, removing the order exactly when
\* nothing is left, and the same holds of the fills after it; a fill of more
\* than what is left of a resting order, and any fill of a removed one, fails
\* and leaves the book as it was, so that the fills after it meet the book
\* that it met.
RECURSIVE FillsRunDown(_, _, _)
FillsRunDown(book, o, left) ==
    \A f \in Fills :
        LET r == fill_order(book, o.order_id, f)
        IN  IF left = 0
            THEN r.ret = OrderNotFound(o.order_id) /\ r.book = book
            ELSE IF f > left
            THEN r.ret = FillQuantityExceedsOrderSize(f, left) /\ r.book = book
            ELSE /\ r.ret = Ok
                 /\ get_order(r.book, o.order_id) =
                        (IF f = left THEN None ELSE Some([o EXCEPT !.size = left - f]))
                 /\ (f = left) = (o.order_id \notin DOMAIN r.book.order_index)
                 /\ FillsRunDown(r.book, o, left - f)

\* C29: for an order that rests with a quantity Q > 0, as add_order leaves
\* it, and any fills f1..fk, each greater than zero, with no other call on
\* its id in between: a fill succeeds while the running sum stays at or
\* below Q, the quantity after it is Q minus the running sum, the order is
\* removed exactly at the fill at which the sum reaches Q, and every fill of
\* the id after that fails with OrderNotFound.
C29_FillsRunDown ==
    \A pl \in Places(Book) :
        LET o == OrderAt(Book, pl[1], pl[2], pl[3])
        IN  o.size > 0 =>
                /\ add_order(Book, o).book = Book
                /\ FillsRunDown(Book, o, o.size)

\* C29 witness: an order of quantity 2 is filled by 1 and rests with 1, is
\* filled by 1 again and is removed, and a third fill of 1 finds no order.
C29_Witness ==
    \E id \in DOMAIN order_index :
        LET first == fill_order(Book, id, 1)
            second == fill_order(first.book, id, 1)
            third == fill_order(second.book, id, 1)
        IN  /\ get_order(Book, id) = Some(Order(id, "Bid", 1, 2))
            /\ get_order(first.book, id) = Some(Order(id, "Bid", 1, 1))
            /\ second.ret = Ok
            /\ get_order(second.book, id) = None
            /\ third.ret = OrderNotFound(id)

\* The members of a set of prices, from the lowest to the highest.
RECURSIVE Ascending(_)
Ascending(S) ==
    IF S = {} THEN <<>>
    ELSE LET low == CHOOSE p \in S : \A q \in S : p <= q
         IN  <<low>> \o Ascending(S \ {low})

\* What the queries return, computed from a flat map alone.
FlatView(m) ==
    LET order(id) == Order(id, m[id].side, m[id].price, m[id].quantity)
        at(s, p) == { order(id) : id \in { i \in DOMAIN m : m[i].side = s
                                                           /\ m[i].price = p } }
        prices(s) == { m[id].price : id \in { i \in DOMAIN m : m[i].side = s } }
        entry(s, p) == <<p, SumOf(at(s, p))>>
        asc(s) == Ascending(prices(s))
        desc(s) == [k \in 1..Len(asc(s)) |-> asc(s)[Len(asc(s)) + 1 - k]]
        top(seq, s, n) ==
            [k \in 1..(IF n < Len(seq) THEN n ELSE Len(seq)) |-> entry(s, seq[k])]
        best(seq, s) == IF seq = <<>> THEN None ELSE Some(entry(s, seq[1]))
        summary(s) ==
            [p \in prices(s) |-> [price |-> p,
                                  total_quantity |-> SumOf(at(s, p)),
                                  order_count |-> Cardinality(at(s, p))]]
    IN  [get_order |-> [id \in OrderIds |->
                           IF id \in DOMAIN m THEN Some(order(id)) ELSE None],
         best_bid |-> best(desc("Bid"), "Bid"),
         best_ask |-> best(asc("Ask"), "Ask"),
         top_n_bids |-> [n \in Depths |-> top(desc("Bid"), "Bid", n)],
         top_n_asks |-> [n \in Depths |-> top(asc("Ask"), "Ask", n)],
         snapshot |-> [bids |-> summary("Bid"), asks |-> summary("Ask")]]

\* What the queries of a book return.
BookView(book) ==
    [get_order |-> [id \in OrderIds |-> get_order(book, id)],
     best_bid |-> best_bid(book),
     best_ask |-> best_ask(book),
     top_n_bids |-> [n \in Depths |-> top_n_bids(book, n)],
     top_n_asks |-> [n \in Depths |-> top_n_asks(book, n)],
     snapshot |-> MarketByPrice_from(book)]

\* C30: after any sequence of calls made on the book and on a flat map from
\* order id to side, price and quantity (add_order inserts or replaces,
\* remove_order deletes, modify_order sets the quantity, fill_order
\* subtracts and deletes at zero), get_order of every id, best_bid,
\* best_ask, top_n_bids and top_n_asks of every depth and the MarketByPrice
\* snapshot of the book are the values computed from the flat map.
C30_RefinesFlatMap == IsSome(flat) => BookView(Book) = FlatView(flat.val)

\* C30 witness: the map holds a bid of quantity 1 at the price 2 and two
\* asks at the price 1, of quantities 2 and 0 after a modify to zero; the
\* book's best ask is the price 1 with the quantity 2 and its snapshot counts
\* two orders there.
C30_Witness ==
    /\ IsSome(flat)
    /\ \E i \in OrderIds :
          /\ flat.val = (i :> [side |-> "Ask", price |-> 1, quantity |-> 2])
                        @@ ((3 - i) :> [side |-> "Ask", price |-> 1, quantity |-> 0])
          /\ best_ask(Book) = Some(<<1, 2>>)
          /\ best_bid(Book) = None
          /\ MarketByPrice_from(Book).asks[1].order_count = 2
          /\ FlatDo(flat.val, [op |-> "fill_order", order_id |-> i, size |-> 2])
                 = ((3 - i) :> [side |-> "Ask", price |-> 1, quantity |-> 0])

\* C31: in every reachable book, add_order of an order whose id is not in
\* the book, followed at once by remove_order of that id, leaves the book
\* exactly as it was before the add: the same levels with the same orders
\* and quantities and the same index, without the level the add created.
C31_AddThenRemoveRestores ==
    \A id \in OrderIds \ DOMAIN order_index :
        \A s \in Sides, p \in Prices, q \in Quantities :
            LET added == add_order(Book, Order(id, s, p, q))
                removed == remove_order(added.book, id)
            IN  /\ added.book # Book
                /\ removed.ret = Some(Order(id, s, p, q))
                /\ removed.book = Book

\* C31 witness: one ask rests at the price 1; a bid of a free id added at
\* the price 2 creates the bid level there, and its removal takes the level
\* away again and leaves the book with the one ask.
C31_Witness ==
    \E i \in OrderIds, j \in OrderIds :
        /\ Places(Book) = {<<"Ask", 1, i>>}
        /\ j \notin DOMAIN order_index
        /\ LET added == add_order(Book, Order(j, "Bid", 2, 1)).book
           IN  /\ Levels(added) = {<<"Ask", 1>>, <<"Bid", 2>>}
               /\ Levels(remove_order(added, j).book) = {<<"Ask", 1>>}
               /\ remove_order(added, j).book = Book

\* The book after add_order of the orders of a batch, from the lowest id
\* to the highest.
RECURSIVE AddAscending(_, _)
AddAscending(book, batch) ==
    IF DOMAIN batch = {} THEN book
    ELSE LET id == CHOOSE i \in DOMAIN batch : \A j \in DOMAIN batch : i <= j
             o == Order(id, batch[id].side, batch[id].price, batch[id].quantity)
         IN  AddAscending(add_order(book, o).book, MapRemove(batch, id))

\* C32: the book that orders with pairwise distinct ids were added to, in
\* whatever order they came, is the book that the same orders, added to the
\* same starting book from the lowest id to the highest, yield: every
\* permutation of the batch gives the one book, in bids, asks and index,
\* and so the one best_bid, best_ask, top_n_bids, top_n_asks and snapshot,
\* which are read from the book alone.
C32_InsertionOrderIrrelevant ==
    (IsSome(direct) /\ IsSome(flat)) => Book = AddAscending(direct.val, flat.val)

\* C32 witness: the starting book holds the order 1 as a bid at the price 2;
\* the batch replaced it by an ask of quantity 2 at the price 1 and added
\* the order 2 beside it, with quantity 1, and the book, whichever came
\* first, has the one ask level with the total 3.
C32_Witness ==
    /\ IsSome(direct)
    /\ IsSome(flat)
    /\ Stored(direct.val) = (<<"Bid", 2, 1>> :> Order(1, "Bid", 2, MaxQty))
    /\ flat.val = (1 :> [side |-> "Ask", price |-> 1, quantity |-> 2])
                  @@ (2 :> [side |-> "Ask", price |-> 1, quantity |-> 1])
    /\ best_ask(Book) = Some(<<1, 3>>)
    /\ best_bid(Book) = None
    /\ LET first == add_order(add_order(direct.val, Order(2, "Ask", 1, 1)).book,
                              Order(1, "Ask", 1, 2)).book
           second == add_order(add_order(direct.val, Order(1, "Ask", 1, 2)).book,
                               Order(2, "Ask", 1, 1)).book
       IN  /\ first = Book
           /\ second = Book
           /\ BookView(first) = BookView(second)

\* C33: remove_order of an id returns None when the id is not in the book
\* and otherwise the order removed: it carries the id, the side and the
\* price at which it rested, and the quantity that the calls made so far
\* left it with (the quantity of its last add_order or successful
\* modify_order, less the successful partial fills since), which is the
\* entry of the id in the flat map that was given the same calls.
C33_RemoveReturnsOrder ==
    IsSome(flat) =>
        \A id \in OrderIds :
            LET r == remove_order(Book, id)
                m == flat.val
            IN  IF id \in DOMAIN m
                THEN /\ r.ret = Some(Order(id, m[id].side, m[id].price,
                                           m[id].quantity))
                     /\ <<r.ret.val.side, r.ret.val.price, id>> \in Places(Book)
                     /\ InBook(Book, id)
                ELSE /\ r.ret = None
                     /\ ~InBook(Book, id)

\* C33 witness: an ask of quantity 2 rests at the price 2 and the other id
\* is free; remove_order of the free id returns None, and remove_order of
\* the ask returns it with the quantity 2, with 1 after a fill of 1 and
\* with 0 after a modify to 0.
C33_Witness ==
    /\ IsSome(flat)
    /\ \E i \in OrderIds, j \in OrderIds :
          /\ flat.val = (i :> [side |-> "Ask", price |-> 2, quantity |-> 2])
          /\ j # i
          /\ remove_order(Book, j).ret = None
          /\ remove_order(Book, i).ret = Some(Order(i, "Ask", 2, 2))
          /\ remove_order(fill_order(Book, i, 1).book, i).ret =
                 Some(Order(i, "Ask", 2, 1))
          /\ remove_order(modify_order(Book, i, 0).book, i).ret =
                 Some(Order(i, "Ask", 2, 0))

\* C34: for orders of any quantities that fit in u64, the total quantity of
\* every level, as total_qty computes it and as best_bid and best_ask
\* report it, is the sum of the quantities of the orders of the level, and
\* computing it does not abort.
C34_TotalNeverWraps ==
    /\ \A l \in Levels(Book) :
          LET level == levels_mut(Book, l[1])[l[2]]
          IN  /\ total_qty(level) = SumOf(OrdersAt(Book, l[1], l[2]))
              /\ ~sum_panics(level.orders, DOMAIN level.orders)
    /\ \A s \in Sides :
          IsSome(BestOf(Book, s)) =>
              BestOf(Book, s).val[2] =
                  SumOf(OrdersAt(Book, s, BestOf(Book, s).val[1]))

\* The calls that take the book by shared reference (&self, &OrderBook).
Queries ==
    [op : {"get_order"}, order_id : OrderIds]
    \cup [op : {"best_bid", "best_ask", "MarketByPrice_from"}]
    \cup [op : {"top_n_bids", "top_n_asks"}, n : Depths]

\* Mutant of Query: best_bid and best_ask take the level they report out of
\* the book.
Query_pops_best(book, q) ==
    LET best == IF q.op = "best_bid" THEN best_bid(book) ELSE best_ask(book)
        side == IF q.op = "best_bid" THEN "Bid" ELSE "Ask"
        level == levels_mut(book, side)[best.val[1]]
        gone == DOMAIN level.orders
    IN  IF q.op \in {"best_bid", "best_ask"} /\ IsSome(best)
        THEN [book |->
                 [set_levels(book, side,
                             MapRemove(levels_mut(book, side), best.val[1]))
                  EXCEPT !.order_index =
                      [id \in DOMAIN book.order_index \ gone |->
                          book.order_index[id]]],
              ret |-> best]
        ELSE [book |-> book,
              ret |-> CASE q.op = "get_order" -> get_order(book, q.order_id)
                        [] q.op = "top_n_bids" -> top_n_bids(book, q.n)
                        [] q.op = "top_n_asks" -> top_n_asks(book, q.n)
                        [] OTHER -> IF q.op = "MarketByPrice_from"
                                    THEN MarketByPrice_from(book) ELSE best]

\* What query q returns and the book it leaves: the receiver is borrowed
\* shared, and OrderBook, OrderLevel and Order have no field with interior
\* mutability, so the book after the call is the book it was made on.
Query(book, q) ==
    [book |-> book,
     ret |-> CASE q.op = "get_order" -> get_order(book, q.order_id)
               [] q.op = "best_bid" -> best_bid(book)
               [] q.op = "best_ask" -> best_ask(book)
               [] q.op = "top_n_bids" -> top_n_bids(book, q.n)
               [] q.op = "top_n_asks" -> top_n_asks(book, q.n)
               [] q.op = "MarketByPrice_from" -> MarketByPrice_from(book)]

C36_NoWarningForRestingOrder ==
    \A id \in OrderIds :
        InBook(Book, id) =>
            /\ remove_order(Book, id).warns = 0
            /\ \A q \in Quantities :
                  /\ modify_order(Book, id, q).warns = 0
                  /\ q <= get_order(Book, id).val.size =>
                         fill_order(Book, id, q).warns = 0

====
